---- MODULE Spec2Model ----
(***************************************************************************)
(* TwitchIO: the paginated HTTP request engine of twitchio/http.py.        *)
(*   Route             URL building from method, path and parameters       *)
(*   HTTPClient        session handling, request, request_json             *)
(*   HTTPAsyncIterator cursor pagination with an optional result budget    *)
(* Strings are sequences of one-character strings; the two hosts and the   *)
(* parameter keys are single tokens of such a sequence.                    *)
(***************************************************************************)
EXTENDS Integers, Sequences, FiniteSets, TLC

\* ------------------------------------------------------------------ bounds
\* Page requests one iterator may issue before the environment stops answering;
\* in Spec a call made while another is suspended counts as one request more.
MaxRequests == 3
\* Largest number of raw items in one server page.
MaxPage == 2
\* Largest max_results an iterator is created with.
MaxBudget == 2
\* Spec: calls made on the iterator while another call on it is suspended.
MaxOverlap == 1
\* Transport calls made directly on the client in SpecClient.
MaxCalls == 2
\* Longest sequence-valued parameter of a Route in SpecRoute.
MaxSeq == 2
\* Longest string given to Route.encode in SpecEncode.
MaxLen == 3

\* ------------------------------------------------------------ Python values
PyNone == [none |-> TRUE]
PyFalse == [bool |-> FALSE]
PyStr(s) == [str |-> s]
PyInt(n) == [int |-> n]
IsNone(v) == DOMAIN v = {"none"}
IsStr(v) == DOMAIN v = {"str"}
IsInt(v) == DOMAIN v = {"int"}
IsBool(v) == DOMAIN v = {"bool"}
IsList(v) == DOMAIN v = {"list"}
IsDict(v) == DOMAIN v = {"dict"}
PyList(l) == [list |-> l]
PyDict(d) == [dict |-> d]

Digit(d) == <<"0", "1", "2", "3", "4", "5", "6", "7", "8", "9">>[d + 1]

RECURSIVE Digits(_)
Digits(n) == IF n < 10 THEN <<Digit(n)>> ELSE Digits(n \div 10) \o <<Digit(n % 10)>>

\* str(value) of a scalar parameter value.
str(v) ==
  IF IsStr(v) THEN v.str
  ELSE IF IsInt(v) THEN (IF v.int < 0 THEN <<"-">> \o Digits(-v.int) ELSE Digits(v.int))
  ELSE IF IsBool(v) THEN (IF v.bool THEN <<"T", "r", "u", "e">> ELSE <<"F", "a", "l", "s", "e">>)
  ELSE <<"N", "o", "n", "e">>

\* ------------------------------------------------------- urllib.parse model
HexDigits == {"0", "1", "2", "3", "4", "5", "6", "7", "8", "9",
              "a", "b", "c", "d", "e", "f", "A", "B", "C", "D", "E", "F"}

\* A str is the sequence of its characters, each a string. The ASCII characters
\* by code, Ascii[n + 1] being chr(n). A character that cannot be written in a
\* string here (a control character other than \t \n \f \r, DEL, the grave
\* accent) stands as its Python escape, "\x01" for chr(1); so does every
\* character of code 128 and above except U+FFFD: "\xe9" for chr(233), "\u20ac"
\* for chr(8364), "\U0001f600" for chr(128512). A str holds no lone surrogate
\* (quote raises UnicodeEncodeError on one).
Ascii ==
  <<"\\x00", "\\x01", "\\x02", "\\x03", "\\x04", "\\x05", "\\x06", "\\x07",
    "\\x08", "\t", "\n", "\\x0b", "\f", "\r", "\\x0e", "\\x0f",
    "\\x10", "\\x11", "\\x12", "\\x13", "\\x14", "\\x15", "\\x16", "\\x17",
    "\\x18", "\\x19", "\\x1a", "\\x1b", "\\x1c", "\\x1d", "\\x1e", "\\x1f",
    " ", "!", "\"", "#", "$", "%", "&", "'",
    "(", ")", "*", "+", ",", "-", ".", "/",
    "0", "1", "2", "3", "4", "5", "6", "7",
    "8", "9", ":", ";", "<", "=", ">", "?",
    "@", "A", "B", "C", "D", "E", "F", "G",
    "H", "I", "J", "K", "L", "M", "N", "O",
    "P", "Q", "R", "S", "T", "U", "V", "W",
    "X", "Y", "Z", "[", "\\", "]", "^", "_",
    "\\x60", "a", "b", "c", "d", "e", "f", "g",
    "h", "i", "j", "k", "l", "m", "n", "o",
    "p", "q", "r", "s", "t", "u", "v", "w",
    "x", "y", "z", "{", "|", "}", "~", "\\x7f">>

UpperHex == <<"0", "1", "2", "3", "4", "5", "6", "7", "8", "9", "A", "B", "C", "D", "E", "F">>
LowerHex == <<"0", "1", "2", "3", "4", "5", "6", "7", "8", "9", "a", "b", "c", "d", "e", "f">>

\* int(h, 16) of one hexadecimal digit.
HexValue(h) == CHOOSE n \in 0..15 : UpperHex[n + 1] = h \/ LowerHex[n + 1] = h

\* U+FFFD, which the UTF-8 decoder with errors="replace" puts for a maximal
\* run of bytes that starts no valid sequence.
Replacement == "�"

\* ord(c); the code of a character written as an escape is the number its
\* hexadecimal digits write.
Ord(c) ==
  LET RECURSIVE HexNumber(_)
      HexNumber(h) ==
        IF Len(h) = 0 THEN 0
        ELSE 16 * HexNumber(SubSeq(h, 1, Len(h) - 1))
               + HexValue(SubSeq(h, Len(h), Len(h)))
  IN  IF \E n \in 1..128 : Ascii[n] = c THEN CHOOSE n \in 0..127 : Ascii[n + 1] = c
      ELSE IF c = Replacement THEN 65533
      ELSE HexNumber(SubSeq(c, 3, Len(c)))

\* chr(n); Hex(m, width) is m written with `width` hexadecimal digits in lower
\* case.
Chr(n) ==
  LET RECURSIVE Hex(_, _)
      Hex(m, width) ==
        IF width = 0 THEN "" ELSE Hex(m \div 16, width - 1) \o LowerHex[(m % 16) + 1]
  IN  IF n < 128 THEN Ascii[n + 1]
      ELSE IF n = 65533 THEN Replacement
      ELSE IF n < 256 THEN "\\x" \o Hex(n, 2)
      ELSE IF n < 65536 THEN "\\u" \o Hex(n, 4)
      ELSE "\\U" \o Hex(n, 8)

\* Characters quote() never escapes: letters, digits and "_.-~".
AlwaysSafe ==
  {Ascii[n + 1] : n \in (48..57) \cup (65..90) \cup (97..122)} \cup {"_", ".", "-", "~"}

\* The escape quote() writes for a character: %XX, in upper case, of each byte
\* of its UTF-8 encoding.
Escaped(c) ==
  LET n == Ord(c)
      bytes ==
        IF n < 128 THEN <<n>>
        ELSE IF n < 2048 THEN <<192 + (n \div 64), 128 + (n % 64)>>
        ELSE IF n < 65536
             THEN <<224 + (n \div 4096), 128 + ((n \div 64) % 64), 128 + (n % 64)>>
        ELSE <<240 + (n \div 262144), 128 + ((n \div 4096) % 64),
               128 + ((n \div 64) % 64), 128 + (n % 64)>>
      Percent(b) == <<"%", UpperHex[(b \div 16) + 1], UpperHex[(b % 16) + 1]>>
      RECURSIVE All(_)
      All(i) == IF i > Len(bytes) THEN <<>> ELSE Percent(bytes[i]) \o All(i + 1)
  IN  All(1)

\* unquote, first step: each ASCII character of the string becomes its byte and
\* each %XX escape the byte it writes (a "%" that starts no escape stays the
\* byte of "%"); a character of code 128 and above is left as it is, between
\* the runs of bytes.
RECURSIVE Unescaped(_)
Unescaped(s) ==
  IF s = <<>> THEN <<>>
  ELSE IF Head(s) = "%" /\ Len(s) >= 3 /\ s[2] \in HexDigits /\ s[3] \in HexDigits
       THEN <<[byte |-> 16 * HexValue(s[2]) + HexValue(s[3])]>>
              \o Unescaped(SubSeq(s, 4, Len(s)))
  ELSE IF \E n \in 1..128 : Ascii[n] = Head(s)
       THEN <<[byte |-> Ord(Head(s))]>> \o Unescaped(Tail(s))
  ELSE <<[char |-> Head(s)]>> \o Unescaped(Tail(s))

\* unquote, second step: bytes.decode("utf-8", "replace") of each run of bytes.
\* A valid sequence gives its character; a lead byte with the continuation
\* bytes that fit it, when the sequence is cut short by the end of the run or
\* by a byte that does not fit, gives one U+FFFD, and so does a byte that
\* starts no sequence.
\* length: the length of the sequence the lead byte starts, 0 when it starts
\* none; Continues(i): the i-th unit is a continuation byte (80..BF);
\* secondFits: the second unit is a continuation byte that makes no overlong
\* form, no surrogate and no code point above U+10FFFF; valid: the number of
\* units from the lead byte on that are the start of a valid sequence;
\* codePoint: what a whole sequence encodes.
RECURSIVE Decoded(_)
Decoded(us) ==
  IF us = <<>> THEN <<>>
  ELSE IF DOMAIN Head(us) # {"byte"} THEN <<Head(us).char>> \o Decoded(Tail(us))
  ELSE LET b == Head(us).byte
           length ==
             IF b < 128 THEN 1
             ELSE IF b >= 194 /\ b <= 223 THEN 2
             ELSE IF b >= 224 /\ b <= 239 THEN 3
             ELSE IF b >= 240 /\ b <= 244 THEN 4
             ELSE 0
           Continues(i) ==
             i <= Len(us) /\ DOMAIN us[i] = {"byte"}
               /\ us[i].byte >= 128 /\ us[i].byte <= 191
           secondFits ==
             /\ Continues(2)
             /\ b = 224 => us[2].byte >= 160
             /\ b = 237 => us[2].byte < 160
             /\ b = 240 => us[2].byte >= 144
             /\ b = 244 => us[2].byte < 144
           valid ==
             IF length <= 1 \/ ~secondFits THEN 1
             ELSE IF length = 2 \/ ~Continues(3) THEN 2
             ELSE IF length = 3 \/ ~Continues(4) THEN 3
             ELSE 4
           codePoint ==
             IF length = 2 THEN (b - 192) * 64 + (us[2].byte - 128)
             ELSE IF length = 3
                  THEN (b - 224) * 4096 + (us[2].byte - 128) * 64 + (us[3].byte - 128)
             ELSE (b - 240) * 262144 + (us[2].byte - 128) * 4096
                    + (us[3].byte - 128) * 64 + (us[4].byte - 128)
       IN  <<IF length = 1 THEN Ascii[b + 1]
             ELSE IF length # 0 /\ valid = length THEN Chr(codePoint)
             ELSE Replacement>>
             \o Decoded(SubSeq(us, valid + 1, Len(us)))

RECURSIVE quote(_, _)
quote(s, safe) ==
  IF s = <<>> THEN <<>>
  ELSE (IF Head(s) \in AlwaysSafe \cup safe THEN <<Head(s)>> ELSE Escaped(Head(s)))
         \o quote(Tail(s), safe)

Replace(s, from, to) == [i \in 1..Len(s) |-> IF s[i] = from THEN to ELSE s[i]]

quote_plus(s, safe) ==
  IF \E i \in 1..Len(s) : s[i] = " "
  THEN Replace(quote(s, safe \cup {" "}), " ", "+")
  ELSE quote(s, safe)

\* A string without "%" is returned as it is.
unquote(s) ==
  IF \A i \in 1..Len(s) : s[i] # "%" THEN s ELSE Decoded(Unescaped(s))

unquote_plus(s) == unquote(Replace(s, "+", " "))

\* Mutant of encode: the value is quoted without the test for an encoded value.
encode_always(value, safe, plus) ==
  IF plus THEN quote_plus(value, safe) ELSE quote(value, safe)

\* Route.encode
encode(value, safe, plus) ==
  IF plus
  THEN (IF unquote_plus(value) = value THEN quote_plus(value, safe) ELSE value)
  ELSE (IF unquote(value) = value THEN quote(value, safe) ELSE value)

\* -------------------------------------------------------------------- Route
BASE == "https://api.twitch.tv/helix/"
ID_BASE == "https://id.twitch.tv/"

RECURSIVE lstrip(_, _)
lstrip(s, c) == IF s # <<>> /\ Head(s) = c THEN lstrip(Tail(s), c) ELSE s

RECURSIVE rstrip(_, _)
rstrip(s, c) ==
  IF s # <<>> /\ s[Len(s)] = c THEN rstrip(SubSeq(s, 1, Len(s) - 1), c) ELSE s

\* A dict is the sequence of its [k, v] entries in insertion order.
HasKey(d, k) == \E i \in 1..Len(d) : d[i].k = k
Get(d, k, default) ==
  IF HasKey(d, k) THEN d[CHOOSE i \in 1..Len(d) : d[i].k = k].v ELSE default
SetItem(d, k, v) ==
  IF HasKey(d, k)
  THEN [i \in 1..Len(d) |-> IF d[i].k = k THEN [k |-> k, v |-> v] ELSE d[i]]
  ELSE Append(d, [k |-> k, v |-> v])

RECURSIVE DictUpdate(_, _)
DictUpdate(d, new) ==
  IF new = <<>> THEN d ELSE DictUpdate(SetItem(d, Head(new).k, Head(new).v), Tail(new))

NotNoneEntry(e) == ~IsNone(e.v)

RECURSIVE JoinPlus(_)
JoinPlus(vs) ==
  IF vs = <<>> THEN <<>>
  ELSE IF Len(vs) = 1 THEN encode(str(vs[1]), {"+"}, FALSE)
  ELSE encode(str(vs[1]), {"+"}, FALSE) \o <<"+">> \o JoinPlus(Tail(vs))

RECURSIVE EmitEach(_, _)
EmitEach(key, vs) ==
  IF vs = <<>> THEN <<>>
  ELSE <<key, "=">> \o encode(str(Head(vs)), {"+"}, TRUE) \o <<"&">> \o EmitEach(key, Tail(vs))

\* Mutant of EmitEntry: None is emitted as the text str() makes of it.
EmitEntryNone(e, duplicate_key) ==
  IF IsNone(e.v) \/ IsStr(e.v) \/ IsInt(e.v) \/ IsBool(e.v)
  THEN <<e.k, "=">> \o encode(str(e.v), {"+"}, TRUE) \o <<"&">>
  ELSE IF duplicate_key THEN EmitEach(e.k, e.v.list)
  ELSE <<e.k, "=">> \o JoinPlus(e.v.list) \o <<"&">>

\* The text one entry of the mapping adds to the URL (the body of the for loop).
EmitEntry(e, duplicate_key) ==
  IF IsNone(e.v) THEN <<>>
  ELSE IF IsStr(e.v) \/ IsInt(e.v) \/ IsBool(e.v)
       THEN <<e.k, "=">> \o encode(str(e.v), {"+"}, TRUE) \o <<"&">>
  ELSE IF duplicate_key THEN EmitEach(e.k, e.v.list)
  ELSE <<e.k, "=">> \o JoinPlus(e.v.list) \o <<"&">>

RECURSIVE EmitAll(_, _)
EmitAll(params, duplicate_key) ==
  IF params = <<>> THEN <<>>
  ELSE EmitEntry(Head(params), duplicate_key) \o EmitAll(Tail(params), duplicate_key)

\* Route.build_url: the route after the call (path, _base_url, params) and the URL.
build_url(self, remove_none, duplicate_key) ==
  LET base == IF self.use_id THEN ID_BASE ELSE BASE
      path == rstrip(lstrip(self.path, "/"), "/")
      url == <<base>> \o path
      kept == IF remove_none THEN SelectSeq(self.params, NotNoneEntry) ELSE self.params
  IN  IF self.params = <<>>
      THEN [self |-> [self EXCEPT !.path = path, !.base_url = url], url |-> url]
      ELSE [self |-> [self EXCEPT !.path = path, !.base_url = url, !.params = kept],
            url |-> rstrip(url \o <<"?">> \o EmitAll(self.params, duplicate_key), "&")]

\* self._url = self.build_url(...): the route build_url left, with its URL stored.
StoreUrl(built) == [built.self EXCEPT !.url = built.url]

\* Route.__init__
NewRoute(method, path, use_id, params) ==
  StoreUrl(build_url([method |-> method, path |-> path, use_id |-> use_id,
                      params |-> params, json |-> <<>>, headers |-> <<>>,
                      base_url |-> <<>>, url |-> <<>>],
                     TRUE, ~use_id))

\* Mutant of update_params: the mapping is replaced by the new parameters.
update_params_replace(self, params, remove_none) ==
  StoreUrl(build_url([self EXCEPT !.params = params], remove_none, TRUE))

\* Route.update_params
update_params(self, params, remove_none) ==
  StoreUrl(build_url([self EXCEPT !.params = DictUpdate(self.params, params)],
                     remove_none, TRUE))

\* Route.update_headers
update_headers(self, headers) == [self EXCEPT !.headers = DictUpdate(@, headers)]

\* --------------------------------------------------------------- transport
\* What the session's request call does: a response arrives, or the call fails
\* (connection error, timeout, cancellation).
JsonType == <<"application/json">>
ContentTypes == {PyNone, PyStr(JsonType), PyStr(<<"application/json", ";", "charset=utf-8">>),
                 PyStr(<<"text/html">>)}

startswith(s, prefix) == Len(s) >= Len(prefix) /\ SubSeq(s, 1, Len(prefix)) = prefix

\* A response body: the JSON object of a page, written as text.
Cursors == {<<"x">>, <<"y">>}
Pagination(cursor) ==
  <<[k |-> "pagination", v |-> PyDict(<<[k |-> "cursor", v |-> PyStr(cursor)]>>)]>>
\* No pagination key, a pagination object without cursor, or one with a cursor.
Paginations == {<<>>, <<[k |-> "pagination", v |-> PyDict(<<>>)]>>}
               \cup {Pagination(c) : c \in Cursors}

Items(from, n) == [i \in 1..n |-> PyInt(from + i)]

Body(hasData, items, pagination) ==
  PyDict((IF hasData THEN <<[k |-> "data", v |-> PyList(items)]>> ELSE <<>>) \o pagination)

ErrorBody == PyDict(<<[k |-> "message", v |-> PyStr(<<"e">>)]>>)
TextBody == PyStr(<<"o", "k">>)

Response(status, ctype, body) ==
  [kind |-> "response", status |-> status, ctype |-> ctype, body |-> body]
TransportError == [kind |-> "error", status |-> 0, ctype |-> PyNone, body |-> PyNone]
\* No response was read: the call did not reach the network.
NoResponse == [kind |-> "none", status |-> 0, ctype |-> PyNone, body |-> PyNone]

IsJsonType(ctype) == IsStr(ctype) /\ startswith(ctype.str, JsonType)

\* resp.text(): the body as text; a JSON object's text is one token.
text(resp) == IF IsStr(resp.body) THEN resp.body ELSE PyStr(<<"{}">>)

\* Mutant of json_or_text: the content type must equal "application/json".
json_or_text_exact(resp) ==
  IF ~IsNone(resp.ctype) /\ resp.ctype.str = JsonType THEN resp.body ELSE text(resp)

\* json_or_text: the parsed object when the response declares JSON, else the text.
\* The body of a response that declares JSON is the object its text parses to.
json_or_text(resp) ==
  IF ~IsNone(resp.ctype) /\ startswith(resp.ctype.str, JsonType)
  THEN resp.body
  ELSE text(resp)

\* --------------------------------------------------------------- HTTPClient
DefaultHeaders == <<[k |-> "User-Agent", v |-> PyStr(<<"ua">>)],
                    [k |-> "Client-ID", v |-> PyStr(<<"id">>)]>>

\* aiohttp.ClientSession()
ClientSession(id) == [id |-> id, closed |-> FALSE, headers |-> <<>>]

\* HTTPClient.__init__
HTTPClient(session) == [session |-> session, created |-> 0]

\* Mutant of _init_session: a session is created on every call.
_init_session_fresh(self) ==
  [self EXCEPT !.session = [ClientSession(self.created + 1) EXCEPT !.headers = DefaultHeaders],
               !.created = @ + 1]

\* HTTPClient._init_session
_init_session(self) ==
  IF ~IsNone(self.session) /\ ~self.session.closed THEN self
  ELSE LET new == IsNone(self.session)
           session == IF new THEN ClientSession(self.created + 1) ELSE self.session
       IN  [self EXCEPT !.session = [session EXCEPT !.headers = DictUpdate(@, DefaultHeaders)],
                        !.created = IF new THEN @ + 1 ELSE @]

\* The result of a call: the objects after it, the exception raised ("" when it
\* returns), the value returned and the requests handed to the session.
Result(self, raised, exc, value, sent) ==
  [self |-> self, raised |-> raised, exc |-> exc, value |-> value, sent |-> sent]

\* Mutant of Send: the status test is "> 400".
SendGt(http, route, out) ==
  LET req == [session |-> http.session.id, method |-> route.method, url |-> route.url,
              headers |-> route.headers,
              json |-> IF route.json = <<>> THEN PyNone ELSE PyDict(route.json)]
  IN  IF http.session.closed
      THEN Result(http, "RuntimeError", PyNone, PyNone, <<req>>)
      ELSE IF out.kind = "error"
      THEN Result(http, "ClientError", PyNone, PyNone, <<req>>)
      ELSE IF out.status > 400
      THEN Result(http, "HTTPException",
                  [status |-> out.status, route |-> route, extra |-> json_or_text(out)],
                  PyNone, <<req>>)
      ELSE Result(http, "", PyNone, json_or_text(out), <<req>>)

\* The request of HTTPClient.request on the session _init_session left in http.
Send(http, route, out) ==
  LET req == [session |-> http.session.id, method |-> route.method, url |-> route.url,
              headers |-> route.headers,
              json |-> IF route.json = <<>> THEN PyNone ELSE PyDict(route.json)]
  IN  IF http.session.closed
      THEN Result(http, "RuntimeError", PyNone, PyNone, <<req>>)
      ELSE IF out.kind = "error"
      THEN Result(http, "ClientError", PyNone, PyNone, <<req>>)
      ELSE IF out.status >= 400
      THEN Result(http, "HTTPException",
                  [status |-> out.status, route |-> route, extra |-> json_or_text(out)],
                  PyNone, <<req>>)
      ELSE Result(http, "", PyNone, json_or_text(out), <<req>>)

\* HTTPClient.request
request(self, route, out) == Send(_init_session(self), route, out)

\* The check request_json makes on what request returned.
ExpectJson(r) ==
  IF r.raised # "" THEN r
  ELSE IF IsStr(r.value) THEN [r EXCEPT !.raised = "TypeError", !.value = PyNone]
  ELSE r

\* HTTPClient.request_json
request_json(self, route, out) == ExpectJson(request(self, route, out))

\* -------------------------------------------------------- HTTPAsyncIterator
\* The converter the iterator is created with: builds a model object of a raw item.
_converter(data) == [model |-> data]

\* HTTPAsyncIterator._do_conversion
_do_conversion(data) == _converter(data)

\* HTTPAsyncIterator.__init__
HTTPAsyncIterator(route, max_results) ==
  LET first == Get(route.params, "first", PyInt(20)).int
  IN  [route |-> route, cursor |-> PyNone,
       first |-> IF ~IsNone(max_results) /\ max_results.int < first
                 THEN max_results.int ELSE first,
       max_results |-> max_results, buffer |-> <<>>, converted |-> <<>>]

\* self._buffer.append(await self._do_conversion(value)); converted is the log of
\* the raw items the converter was called with.
Convert(self, value) ==
  [self EXCEPT !.buffer = Append(@, _do_conversion(value)), !.converted = Append(@, value)]

\* Mutant of Consume: the budget is checked after the item is buffered.
RECURSIVE ConsumeThenCheck(_, _)
ConsumeThenCheck(self, inner) ==
  IF inner = <<>> THEN self
  ELSE IF IsNone(self.max_results)
  THEN ConsumeThenCheck(Convert(self, Head(inner)), Tail(inner))
  ELSE LET dec == Convert([self EXCEPT !.max_results = PyInt(@.int - 1)], Head(inner))
       IN  IF dec.max_results.int < 0 THEN dec ELSE ConsumeThenCheck(dec, Tail(inner))

\* Mutant of Consume: the item is converted before the budget is checked, and
\* buffered after.
RECURSIVE ConsumeConvertFirst(_, _)
ConsumeConvertFirst(self, inner) ==
  IF inner = <<>> THEN self
  ELSE IF IsNone(self.max_results)
  THEN ConsumeConvertFirst(Convert(self, Head(inner)), Tail(inner))
  ELSE LET dec == [self EXCEPT !.max_results = PyInt(@.int - 1),
                               !.converted = Append(@, Head(inner))]
       IN  IF dec.max_results.int < 0 THEN dec
           ELSE ConsumeConvertFirst(
                  [dec EXCEPT !.buffer = Append(@, _do_conversion(Head(inner)))],
                  Tail(inner))

\* Mutant of Consume: the budget is tested before it is decremented.
RECURSIVE ConsumeTestFirst(_, _)
ConsumeTestFirst(self, inner) ==
  IF inner = <<>> THEN self
  ELSE IF IsNone(self.max_results)
  THEN ConsumeTestFirst(Convert(self, Head(inner)), Tail(inner))
  ELSE IF self.max_results.int < 0 THEN self
  ELSE ConsumeTestFirst(Convert([self EXCEPT !.max_results = PyInt(@.int - 1)], Head(inner)),
                        Tail(inner))

\* The for loop of _call_next over the raw items of a page.
RECURSIVE Consume(_, _)
Consume(self, inner) ==
  IF inner = <<>> THEN self
  ELSE IF IsNone(self.max_results)
  THEN Consume(Convert(self, Head(inner)), Tail(inner))
  ELSE LET dec == [self EXCEPT !.max_results = PyInt(@.int - 1)]
       IN  IF dec.max_results.int < 0 THEN dec
           ELSE Consume(Convert(dec, Head(inner)), Tail(inner))

\* A call of an iterator method: the iterator and the client after it.
IterResult(self, http, raised, exc, value, sent) ==
  [self |-> self, http |-> http, raised |-> raised, exc |-> exc, value |-> value,
   sent |-> sent]

StopIteration(self, http) ==
  IterResult(self, http, "StopAsyncIteration", PyNone, PyNone, <<>>)

\* Mutant of Buffer: a response without "data" is read as an empty page.
BufferLenient(self, r) ==
  IF r.raised # ""
  THEN IterResult(self, r.self, r.raised, r.exc, PyNone, r.sent)
  ELSE IterResult(Consume(self, Get(r.value.dict, "data", PyList(<<>>)).list), r.self,
                  "", PyNone, PyNone, r.sent)

\* Mutant of Buffer: a failed fetch leaves a placeholder item in the buffer.
BufferPartial(self, r) ==
  IF r.raised # ""
  THEN IterResult(Convert(self, PyNone), r.self,
                  r.raised, r.exc, PyNone, r.sent)
  ELSE IF ~HasKey(r.value.dict, "data")
  THEN IterResult(self, r.self, "ValueError", PyNone, PyNone, r.sent)
  ELSE IterResult(Consume(self, Get(r.value.dict, "data", PyNone).list), r.self,
                  "", PyNone, PyNone, r.sent)

\* _call_next from the response on: r is what request_json did, self the iterator
\* with its route updated.
Buffer(self, r) ==
  IF r.raised # ""
  THEN IterResult(self, r.self, r.raised, r.exc, PyNone, r.sent)
  ELSE IF ~HasKey(r.value.dict, "data")
  THEN IterResult(self, r.self, "ValueError", PyNone, PyNone, r.sent)
  ELSE IterResult(Consume(self, Get(r.value.dict, "data", PyNone).list), r.self,
                  "", PyNone, PyNone, r.sent)

\* Mutant of SetCursor: a missing cursor is read as None, not False.
SetCursorNone(self, r) ==
  IF r.raised # "" THEN self
  ELSE [self EXCEPT !.cursor =
          Get(Get(r.value.dict, "pagination", PyDict(<<>>)).dict, "cursor", PyNone)]

\* self._cursor = data.get("pagination", {}).get("cursor", False)
SetCursor(self, r) ==
  IF r.raised # "" THEN self
  ELSE [self EXCEPT !.cursor =
          Get(Get(r.value.dict, "pagination", PyDict(<<>>)).dict, "cursor", PyFalse)]

Page(self, r) == Buffer(SetCursor(self, r), r)

Fetch(self, http, out) == Page(self, request_json(http, self.route, out))

\* Mutant of _call_next: the budget test is "< 0".
_call_next_lt(self, http, out) ==
  IF self.cursor = PyFalse THEN StopIteration(self, http)
  ELSE IF ~IsNone(self.max_results) /\ self.max_results.int < 0
  THEN StopIteration(self, http)
  ELSE Fetch([self EXCEPT !.route =
                update_params(@, <<[k |-> "after", v |-> self.cursor]>>, TRUE)],
             http, out)

\* Mutant of _call_next: the cursor is sent as the text str() makes of it.
_call_next_str(self, http, out) ==
  IF self.cursor = PyFalse THEN StopIteration(self, http)
  ELSE IF ~IsNone(self.max_results) /\ self.max_results.int <= 0
  THEN StopIteration(self, http)
  ELSE Fetch([self EXCEPT !.route =
                update_params(@, <<[k |-> "after", v |-> PyStr(str(self.cursor))]>>, TRUE)],
             http, out)

\* HTTPAsyncIterator._call_next
_call_next(self, http, out) ==
  IF self.cursor = PyFalse THEN StopIteration(self, http)
  ELSE IF ~IsNone(self.max_results) /\ self.max_results.int <= 0
  THEN StopIteration(self, http)
  ELSE Fetch([self EXCEPT !.route =
                update_params(@, <<[k |-> "after", v |-> self.cursor]>>, TRUE)],
             http, out)

\* Mutant of FetchIfEmpty: the buffer is not looked at.
FetchAlways(self, http, out) == _call_next(self, http, out)

\* The fetch both __anext__ and _flatten start with: only on an empty buffer.
FetchIfEmpty(self, http, out) ==
  IF self.buffer = <<>> THEN _call_next(self, http, out)
  ELSE IterResult(self, http, "", PyNone, PyNone, <<>>)

\* Mutant of List: the first item is taken out of the buffer before it is listed.
ListRest(c) ==
  IF c.raised # "" THEN c
  ELSE [c EXCEPT !.value = PyList(IF c.self.buffer = <<>> THEN <<>> ELSE Tail(c.self.buffer))]

\* return list(self._buffer)
List(c) == IF c.raised # "" THEN c ELSE [c EXCEPT !.value = PyList(c.self.buffer)]

\* Mutant of _flatten: a page is fetched whether or not the buffer is empty.
_flatten_refetch(self, http, out) == List(_call_next(self, http, out))

\* HTTPAsyncIterator._flatten (what awaiting the iterator runs)
_flatten(self, http, out) == List(FetchIfEmpty(self, http, out))

\* Mutant of Popleft: pop() takes the newest item.
Pop(c) ==
  IF c.raised # "" THEN c
  ELSE IF c.self.buffer = <<>> THEN [c EXCEPT !.raised = "StopAsyncIteration"]
  ELSE [c EXCEPT !.value = c.self.buffer[Len(c.self.buffer)],
                 !.self.buffer = SubSeq(@, 1, Len(@) - 1)]

\* Mutant of Popleft: the first item is read and left in the buffer.
Peek(c) ==
  IF c.raised # "" THEN c
  ELSE IF c.self.buffer = <<>> THEN [c EXCEPT !.raised = "StopAsyncIteration"]
  ELSE [c EXCEPT !.value = Head(c.self.buffer)]

\* self._buffer.popleft(), an empty buffer ending the iteration
Popleft(c) ==
  IF c.raised # "" THEN c
  ELSE IF c.self.buffer = <<>> THEN [c EXCEPT !.raised = "StopAsyncIteration"]
  ELSE [c EXCEPT !.value = Head(c.self.buffer), !.self.buffer = Tail(@)]

\* HTTPAsyncIterator.__anext__
__anext__(self, http, out) == Popleft(FetchIfEmpty(self, http, out))

\* self._route.update_params({"after": self._cursor})
SetAfter(self) ==
  [self EXCEPT !.route = update_params(@, <<[k |-> "after", v |-> self.cursor]>>, TRUE)]

\* Mutant of clear: the session is discarded whether closed or not.
clear_any(self) == [self EXCEPT !.session = PyNone]

\* HTTPClient.clear
clear(self) ==
  IF ~IsNone(self.session) /\ self.session.closed THEN [self EXCEPT !.session = PyNone]
  ELSE self

\* session.close() on the session numbered id: the flag takes effect on the
\* client's session when that is still the one being closed, and a session that
\* is closed stays closed.
SessionClose(self, id, closed) ==
  IF ~IsNone(self.session) /\ self.session.id = id
  THEN [self EXCEPT !.session.closed = @ \/ closed]
  ELSE self

\* Mutant of close: an exception of the session's close() is not caught.
close_reraise(self, id, raises, closedAfter) ==
  IF raises
  THEN Result(SessionClose(self, id, closedAfter), "Exception", PyNone, PyNone, <<>>)
  ELSE Result(clear(SessionClose(self, id, TRUE)), "", PyNone, PyNone, <<>>)

\* HTTPClient.close from its await on, entered with an open session numbered
\* id: the session's own close() either succeeds or raises an Exception, and
\* when it raises the session may or may not have been closed; then clear().
\* exc is the exception close() caught and logged, None when there was none.
close(self, id, raises, closedAfter) ==
  Result(clear(SessionClose(self, id, IF raises THEN closedAfter ELSE TRUE)),
         "", IF raises THEN PyStr(<<"Exception">>) ELSE PyNone, PyNone, <<>>)

\* ------------------------------------------------------------------- state
VARIABLES
  it,     \* the HTTPAsyncIterator under test, its Route in it.route
  http,   \* the HTTPClient
  served, \* the number of raw items the server has returned in pages so far
  hist,   \* what the calls so far did (see NoHistory)
  ret,    \* how the last call ended: returned value or raised exception
  resp,   \* the response the last call read from the network, if any
  inflight, \* the calls suspended in an await, each with what it needs to go on
  target, \* SpecRoute: the Route whose methods are called
  bot,    \* SpecBot: the commands.Bot
  its     \* SpecFlows: the iterators the flows step

vars == <<it, http, served, hist, ret, resp, inflight, target, bot, its>>

\* nreq: requests handed to the session; delivered: the items __anext__ returned;
\* stopAt: Len(delivered) when __anext__ first signalled end-of-sequence, else -1;
\* firstPage: the number of raw items of the first page received, else -1;
\* noCursor: a successful JSON response without a cursor was received;
\* failed: some fetch raised; M: the max_results the iterator was created with;
\* life: "close" after close() on an open session, "discard" after a clear() that
\* discarded the session, "close+request" / "discard+request" after the request
\* that followed, else ""; closed: some close() or outside close acted on an open
\* session; used: the ids of the sessions requests were handed to; afters
\* (SpecFlows): the `after` of each page request issued, in order; overlap
\* (SpecFlows): a page request was issued on an iterator while another request
\* of the same iterator was still unanswered; lastCursor: the cursor of the last
\* successful JSON response read, False when it had none, None before the first.
\* Spec: overlaps: the number of calls made while another was suspended.
\* SpecBot: overlap: a call ran on the bot while another was suspended in its
\* await; direct: a command or listener was added or removed on the bot directly.
NoHistory(m) ==
  [nreq |-> 0, delivered |-> <<>>, stopAt |-> -1, firstPage |-> -1,
   noCursor |-> FALSE, failed |-> FALSE, M |-> m, life |-> "", closed |-> FALSE,
   used |-> {}, afters |-> <<>>, overlap |-> FALSE, lastCursor |-> PyNone,
   direct |-> FALSE, overlaps |-> 0]

\* op: the method called; route: the Route passed to it; raised: the exception
\* ("" when it returned); exc: what the exception carries; value: what was
\* returned; calls: the number of requests the call handed to the session, sent:
\* those requests.
Call(op, route, r) ==
  [op |-> op, route |-> route, raised |-> r.raised, exc |-> r.exc, value |-> r.value,
   calls |-> Len(r.sent), sent |-> r.sent]
NoCall == [op |-> "", route |-> PyNone, raised |-> "", exc |-> PyNone, value |-> PyNone,
           calls |-> 0, sent |-> <<>>]

\* The tasks that make calls; each has at most one call suspended.
Tasks == {1, 2}

\* Some task has no call suspended.
SomeIdle == Len(inflight) < Cardinality(Tasks)

\* The suspended calls without the k-th.
Without(k) == SubSeq(inflight, 1, k - 1) \o SubSeq(inflight, k + 1, Len(inflight))

\* The routes iterators are created on.
RoutePath == <<"games/top">>
RouteParams == {<<>>, <<[k |-> "first", v |-> PyInt(2)]>>}
\* The routes iterators are created on: as constructed, or with a parameter set
\* to None by update_params(remove_none=False) before the iterator is created.
IterRoutes ==
  {NewRoute("GET", RoutePath, FALSE, params) : params \in RouteParams}
  \cup {update_params(NewRoute("GET", RoutePath, FALSE, params),
                      <<[k |-> "q", v |-> PyNone]>>, FALSE) :
          params \in {<<[k |-> "first", v |-> PyInt(2)]>>}}
Budgets == {PyNone} \cup {PyInt(n) : n \in 0..MaxBudget}

\* What the server may answer to a page request after it has sent `from` items.
PageStatuses == {200, 404}
JsonTypes == {c \in ContentTypes : IsJsonType(c)}
PageOutcomes(from) ==
  {TransportError}
  \cup {Response(s, c, IF IsJsonType(c) THEN ErrorBody ELSE TextBody) :
          s \in {s \in PageStatuses : s >= 400}, c \in ContentTypes}
  \cup {Response(s, c, TextBody) :
          s \in {s \in PageStatuses : s < 400}, c \in ContentTypes \ JsonTypes}
  \cup {Response(s, PyStr(JsonType), Body(TRUE, Items(from, n), p)) :
          s \in {s \in PageStatuses : s < 400}, n \in 0..MaxPage, p \in Paginations}
  \cup {Response(s, PyStr(JsonType), Body(FALSE, <<>>, p)) :
          s \in {s \in PageStatuses : s < 400}, p \in Paginations}

\* A successful JSON response, and one that carries the page's data.
IsPage(out) == out.kind = "response" /\ out.status < 400 /\ IsJsonType(out.ctype)
HasData(out) == IsPage(out) /\ HasKey(out.body.dict, "data")
PageItems(out) == Get(out.body.dict, "data", PyList(<<>>)).list
HasCursor(out) ==
  /\ HasKey(out.body.dict, "pagination")
  /\ HasKey(Get(out.body.dict, "pagination", PyDict(<<>>)).dict, "cursor")

\* Whether a call on this iterator goes to the network.
WillFetch(self) ==
  /\ self.buffer = <<>>
  /\ self.cursor # PyFalse
  /\ IsNone(self.max_results) \/ self.max_results.int > 0

Init ==
  /\ \E route \in IterRoutes, m \in Budgets :
       /\ it = HTTPAsyncIterator(route, m)
       /\ hist = NoHistory(m)
  /\ http = HTTPClient(PyNone)
  /\ served = 0
  /\ ret = NoCall
  /\ resp = NoResponse
  /\ inflight = <<>>
  /\ bot = PyNone
  /\ its = <<>>
  /\ target = PyNone

\* A call that is suspended in its await, having handed `sent` to the session.
Begun(call, route, sent) ==
  [NoCall EXCEPT !.op = "begin", !.route = route, !.calls = Len(sent), !.sent = sent]
    @@ [call |-> call]

\* Spec: tasks call __anext__ on one iterator and await it, and the server
\* answers anything. A call runs without interruption up to its only suspension,
\* the await of request_json in _call_next (the converter does not suspend): by
\* then the route holds the `after` of the call and the session has been given
\* the request with the URL read from it. The call goes on when the answer
\* arrives, with the iterator as it is by then; other calls run in between.
Ops == {"anext", "await"}

\* What the call op on the iterator self does when its page request, if it
\* makes one, is answered with out.
Run(op, self, client, out) ==
  IF op = "anext" THEN __anext__(self, client, out) ELSE _flatten(self, client, out)

\* The call op from the await of request_json on: r is what request_json did,
\* self the iterator when it returned.
Resumed(op, self, r) == IF op = "anext" THEN Popleft(Page(self, r)) ELSE List(Page(self, r))

\* The bookkeeping of the end of the iterator call op that started on the
\* iterator `before`, did c and read the answer out (NoResponse when it made no
\* request) to the request it made after the server had sent `from` items;
\* busy: it ran while another call was suspended.
Done(op, before, c, out, from, busy) ==
  LET got == IsPage(out)
      page == IF got /\ HasData(out) THEN PageItems(out) ELSE <<>>
      stop == op = "anext" /\ c.raised = "StopAsyncIteration"
  IN  /\ it' = c.self
      /\ served' = IF from + Len(page) > served THEN from + Len(page) ELSE served
      /\ ret' = Call(op, PyNone, c) @@ [before |-> before]
      /\ resp' = out
      /\ hist' = [hist EXCEPT
                    !.delivered = IF op = "anext" /\ c.raised = "" THEN Append(@, c.value) ELSE @,
                    !.stopAt = IF stop /\ @ = -1 THEN Len(hist.delivered) ELSE @,
                    !.firstPage = IF got /\ HasData(out) /\ @ = -1 THEN Len(page) ELSE @,
                    !.noCursor = @ \/ (got /\ ~HasCursor(out)),
                    !.failed = @ \/ c.raised \notin {"", "StopAsyncIteration"},
                    !.lastCursor =
                      IF ~got THEN @
                      ELSE IF ~HasCursor(out) THEN PyFalse
                      ELSE Get(Get(out.body.dict, "pagination", PyDict(<<>>)).dict,
                               "cursor", PyFalse),
                    !.overlap = @ \/ busy,
                    !.overlaps = IF busy THEN @ + 1 ELSE @]

\* A task calls __anext__ ("async for") or awaits the iterator. A call that
\* makes no request runs to its end; one that makes a request is suspended with
\* the route updated and the request handed to the session.
Step(op) ==
  /\ SomeIdle
  /\ inflight # <<>> => hist.overlaps < MaxOverlap
  /\ \E c \in {Run(op, it, http, TransportError)} :
       IF c.sent = <<>>
       THEN /\ Done(op, it, c, NoResponse, 0, inflight # <<>>)
            /\ UNCHANGED <<http, inflight>>
       ELSE /\ hist.nreq + hist.overlaps + (IF inflight # <<>> THEN 1 ELSE 0) < MaxRequests
            /\ it' = [it EXCEPT !.route = c.self.route]
            /\ http' = c.http
            /\ inflight' = Append(inflight, [op |-> op, before |-> it, http |-> http,
                                             route |-> c.self.route, from |-> served])
            /\ ret' = Begun(op, PyNone, c.sent)
            /\ resp' = NoResponse
            /\ hist' = [hist EXCEPT
                          !.nreq = @ + 1,
                          !.used = @ \cup {c.sent[1].session},
                          !.afters = Append(@, Get(c.self.route.params, "after", PyNone)),
                          !.overlap = @ \/ inflight # <<>>,
                          !.overlaps = IF inflight # <<>> THEN @ + 1 ELSE @]
            /\ served' = served
  /\ UNCHANGED <<target, bot, its>>

\* The answer to a suspended page request arrives and its call runs to the end.
Answer ==
  /\ \E k \in 1..Len(inflight) : \E out \in PageOutcomes(inflight[k].from) :
       /\ Done(inflight[k].op, inflight[k].before,
               Resumed(inflight[k].op, it,
                       request_json(inflight[k].http, inflight[k].route, out)),
               out, inflight[k].from, FALSE)
       /\ inflight' = Without(k)
  /\ UNCHANGED <<http, target, bot, its>>

Next == (\E op \in Ops : Step(op)) \/ Answer

Spec == Init /\ [][Next]_vars

\* ------------------------------------------------- the client used directly
\* SpecClient: tasks call request, request_json, close and clear on one client,
\* whose session may also be closed from outside. A call runs without
\* interruption between its awaits: request and request_json from the call to
\* the suspension inside session.request (_init_session contains no await), and
\* from the arrival of the response to the end; close from the call to the
\* suspension inside session.close(), and from there to the end; clear has no
\* await. Other calls start, go on or end while a call is suspended.
Statuses == {200, 399, 400}
ClientRoutes == {NewRoute("GET", <<"games/top">>, FALSE, <<>>),
                 NewRoute("POST", <<"oauth2/token">>, TRUE, <<>>)}
\* What the server may answer: every status with a JSON and with an HTML body,
\* and status 200 with every content type.
ClientOutcomes ==
  {TransportError}
  \cup {Response(s, PyStr(JsonType), ErrorBody) : s \in Statuses}
  \cup {Response(s, PyStr(<<"text/html">>), TextBody) : s \in Statuses}
  \cup {Response(200, c, ErrorBody) : c \in JsonTypes}
  \cup {Response(200, c, TextBody) : c \in ContentTypes \ JsonTypes}

InitClient ==
  /\ it = HTTPAsyncIterator(NewRoute("GET", RoutePath, FALSE, <<>>), PyNone)
  /\ hist = NoHistory(PyNone)
  /\ http \in {HTTPClient(PyNone), HTTPClient(ClientSession(0))}
  /\ served = 0
  /\ ret = NoCall
  /\ resp = NoResponse
  /\ inflight = <<>>
  /\ bot = PyNone
  /\ its = <<>>
  /\ target = PyNone

\* A client that holds a session which is not closed.
IsOpen(self) == ~IsNone(self.session) /\ ~self.session.closed

Requests == {"request", "request_json"}

\* The close() calls suspended in session.close().
Closing == {k \in 1..Len(inflight) : inflight[k].op = "close"}

\* hist.life, which tells what the next request follows: "close" from the end
\* of a close() that found an open session until the next request or discard,
\* whatever else closes the session meanwhile; "discard" from a clear() that
\* discarded a session until the next request; with "+request" once that
\* request has been made. Life is hist.life after the call op, which is clear
\* or a request, on the client self.
Life(op, self, life) ==
  IF op = "clear"
  THEN (IF ~IsNone(self.session) /\ self.session.closed THEN "discard" ELSE life)
  ELSE IF life = "close" THEN "close+request"
  ELSE IF life = "discard" THEN "discard+request"
  ELSE ""

\* What the call op (request or request_json) made on the client self does when
\* its request is answered with out.
Invoke(op, self, route, out) ==
  IF op = "request" THEN request(self, route, out) ELSE request_json(self, route, out)

\* await http.request(route) or await http.request_json(route), up to its
\* suspension: _init_session, then the request is handed to the session, which
\* refuses it when it is closed and else suspends the call.
Request(op) ==
  /\ hist.nreq < MaxCalls
  /\ SomeIdle
  /\ \E route \in ClientRoutes : \E r \in {Invoke(op, http, route, NoResponse)} :
       /\ http' = r.self
       /\ hist' = [hist EXCEPT !.nreq = @ + 1, !.life = Life(op, http, @),
                                !.used = @ \cup {r.self.session.id}]
       /\ IF r.raised = "RuntimeError"
          THEN /\ ret' = Call(op, route, r)
               /\ inflight' = inflight
          ELSE /\ ret' = Begun(op, route, r.sent)
               /\ inflight' = Append(inflight, [op |-> op, http |-> http, route |-> route])
       /\ resp' = NoResponse
  /\ UNCHANGED <<it, served, target, bot, its>>

\* The answer to a suspended request arrives and its call runs to the end.
Finish ==
  /\ \E k \in 1..Len(inflight), out \in ClientOutcomes :
       /\ inflight[k].op \in Requests
       /\ \E r \in {Invoke(inflight[k].op, inflight[k].http, inflight[k].route, out)} :
            /\ ret' = Call(inflight[k].op, inflight[k].route, r)
            /\ resp' = out
       /\ inflight' = Without(k)
  /\ UNCHANGED <<it, http, served, hist, target, bot, its>>

\* await http.close(), up to its suspension in session.close(), which may have
\* marked the session closed by then; on a client without an open session the
\* call returns at once.
Close ==
  /\ IF ~IsOpen(http)
     THEN /\ ret' = Call("close", PyNone, Result(http, "", PyNone, PyNone, <<>>))
          /\ UNCHANGED <<http, hist, inflight>>
     ELSE /\ SomeIdle
          /\ \E marked \in BOOLEAN : http' = SessionClose(http, http.session.id, marked)
          /\ ret' = Begun("close", PyNone, <<>>)
          /\ hist' = [hist EXCEPT !.closed = TRUE, !.life = IF @ = "close" THEN @ ELSE ""]
          /\ inflight' = Append(inflight, [op |-> "close", http |-> http, route |-> PyNone])
  /\ resp' = NoResponse
  /\ UNCHANGED <<it, served, target, bot, its>>

\* session.close() of a suspended close() returns or raises, and close() runs
\* to its end on the client as it is by then.
Closed ==
  /\ \E k \in Closing, raises \in BOOLEAN, closedAfter \in BOOLEAN :
       /\ \E r \in {close(http, inflight[k].http.session.id, raises, closedAfter)} :
            /\ http' = r.self
            /\ ret' = Call("close", PyNone, r)
       /\ inflight' = Without(k)
  /\ resp' = NoResponse
  /\ hist' = [hist EXCEPT !.life = "close"]
  /\ UNCHANGED <<it, served, target, bot, its>>

\* http.clear()
Clear ==
  /\ http' = clear(http)
  /\ ret' = Call("clear", PyNone, Result(clear(http), "", PyNone, PyNone, <<>>))
  /\ resp' = NoResponse
  /\ hist' = [hist EXCEPT !.life = Life("clear", http, @)]
  /\ UNCHANGED <<it, served, inflight, target, bot, its>>

\* The session is closed by its owner outside the client.
SessionClosed ==
  /\ IsOpen(http)
  /\ http' = [http EXCEPT !.session.closed = TRUE]
  /\ ret' = [NoCall EXCEPT !.op = "session.close"]
  /\ resp' = NoResponse
  /\ hist' = [hist EXCEPT !.life = IF @ = "close" THEN @ ELSE "", !.closed = TRUE]
  /\ UNCHANGED <<it, served, inflight, target, bot, its>>

NextClient ==
  \/ \E op \in Requests : Request(op)
  \/ Finish \/ Close \/ Closed \/ Clear \/ SessionClosed

SpecClient == InitClient /\ [][NextClient]_vars

\* ------------------------------------------------------ the Route on its own
\* SpecRoute: a Route is constructed and its update_params and build_url are
\* called. Parameter "id" takes None, an int or a sequence of ints and strings,
\* parameter "q" None or a string.
Elements == {PyInt(1), PyStr(<<"a", " ", "b">>), PyStr(<<"a", "+", "&">>)}
ElementSeqs == UNION {[1..n -> Elements] : n \in 0..MaxSeq}
IdValues == {PyNone, PyInt(1)} \cup {PyList(l) : l \in ElementSeqs}
QValues == {PyNone, PyStr(<<"a", " ", "b">>), PyStr(<<"a", "+", "&", "b">>)}
IdEntries == {[k |-> "id", v |-> v] : v \in IdValues}
QEntries == {[k |-> "q", v |-> v] : v \in QValues}
Mappings ==
  {<<>>} \cup {<<e>> : e \in IdEntries \cup QEntries}
         \cup {<<a, b>> : a \in IdEntries, b \in QEntries}
         \cup {<<b, a>> : a \in IdEntries, b \in QEntries}
\* The mappings given to update_params: empty, or one entry.
Updates ==
  {<<>>} \cup {<<e>> : e \in QEntries}
         \cup {<<[k |-> "id", v |-> v]>> :
                  v \in {PyNone, PyInt(1), PyList(<<PyInt(1), PyStr(<<"a", " ", "b">>)>>)}}

\* A call on the Route: route is the Route before it, args its arguments, value
\* the URL it returned or stored.
RouteCall(op, before, args, value) ==
  [op |-> op, route |-> before, raised |-> "", exc |-> PyNone, value |-> value,
   calls |-> 0, args |-> args]

\* Route(method, path, use_id=use_id, params=params)
InitRoute ==
  /\ \E use_id \in BOOLEAN, params \in Mappings :
       \E r \in {NewRoute(IF use_id THEN "POST" ELSE "GET",
                          IF use_id THEN <<"/", "oauth2/token", "/">> ELSE RoutePath,
                          use_id, params)} :
         /\ target = r
         /\ ret = RouteCall("Route", PyNone, [params |-> params], PyStr(r.url))
  /\ it = HTTPAsyncIterator(NewRoute("GET", RoutePath, FALSE, <<>>), PyNone)
  /\ hist = NoHistory(PyNone)
  /\ http = HTTPClient(PyNone)
  /\ served = 0
  /\ resp = NoResponse
  /\ inflight = <<>>
  /\ bot = PyNone
  /\ its = <<>>

\* route.update_params(params, remove_none=remove_none)
UpdateParams ==
  /\ \E params \in Updates, remove_none \in BOOLEAN :
       \E r \in {update_params(target, params, remove_none)} :
         /\ target' = r
         /\ ret' = RouteCall("update_params", target,
                             [params |-> params, remove_none |-> remove_none],
                             PyStr(r.url))
  /\ UNCHANGED <<it, http, served, hist, resp, inflight, bot, its>>

\* route.build_url(remove_none=remove_none, duplicate_key=duplicate_key)
BuildUrl ==
  /\ \E remove_none \in BOOLEAN, duplicate_key \in BOOLEAN :
       \E b \in {build_url(target, remove_none, duplicate_key)} :
         /\ target' = b.self
         /\ ret' = RouteCall("build_url", target,
                             [remove_none |-> remove_none, duplicate_key |-> duplicate_key],
                             PyStr(b.url))
  /\ UNCHANGED <<it, http, served, hist, resp, inflight, bot, its>>

\* The headers given to update_headers: a token, or another token with a second
\* header.
HeaderUpdates ==
  {<<[k |-> "Authorization", v |-> PyStr(<<"t">>)]>>,
   <<[k |-> "Authorization", v |-> PyStr(<<"u">>)], [k |-> "Accept", v |-> PyStr(<<"*">>)]>>}

\* route.update_headers(headers)
UpdateHeaders ==
  /\ \E headers \in HeaderUpdates :
       /\ target' = update_headers(target, headers)
       /\ ret' = RouteCall("update_headers", target, [headers |-> headers], PyNone)
  /\ UNCHANGED <<it, http, served, hist, resp, inflight, bot, its>>

NextRoute == UpdateParams \/ BuildUrl \/ UpdateHeaders

SpecRoute == InitRoute /\ [][NextRoute]_vars

\* ------------------------------------------------------------- Route.encode
\* SpecEncode: Route.encode is called once, on a string of at most MaxLen
\* characters or on one of a few longer ones; the arguments of the call are
\* chosen at the start.
Alphabet == {" ", "+", "%", "2", "5", "x"}
\* The strings over the alphabet, and strings with characters beyond ASCII and
\* with the escapes of such characters, whole and cut short.
Values ==
  UNION {[1..n -> Alphabet] : n \in 0..MaxLen}
  \cup {<<Chr(233)>>, <<Chr(8364), "+">>, <<Chr(128512)>>, <<Replacement>>,
        <<"%", "C", "3", "%", "A", "9">>, <<"%", "c", "3", "%", "a", "9", "x">>,
        <<"%", "E", "2", "%", "8", "2">>, <<"%", "E", "2", "%", "8", "2", "%", "A", "C">>,
        <<"%", "E", "F", "%", "B", "F", "%", "B", "D">>,
        <<"%", "F", "0", "%", "9", "F", "%", "9", "8", "%", "8", "0">>,
        <<"%", "C", "3", "x">>, <<"%", "A", "9">>, <<"%", "E", "0", "%", "8", "0">>}
Safes == {{}, {"+"}}

InitEncode ==
  /\ target = PyNone
  /\ \E value \in Values, safe \in Safes, plus \in BOOLEAN :
       ret = RouteCall("", PyNone, [value |-> value, safe |-> safe, plus |-> plus], PyNone)
  /\ it = HTTPAsyncIterator(NewRoute("GET", RoutePath, FALSE, <<>>), PyNone)
  /\ hist = NoHistory(PyNone)
  /\ http = HTTPClient(PyNone)
  /\ served = 0
  /\ resp = NoResponse
  /\ inflight = <<>>
  /\ bot = PyNone
  /\ its = <<>>

\* Route.encode(value, safe=safe, plus=plus)
Encode ==
  /\ ret.op = ""
  /\ ret' = RouteCall("encode", PyNone, ret.args,
                      PyStr(encode(ret.args.value, ret.args.safe, ret.args.plus)))
  /\ UNCHANGED <<it, http, served, hist, resp, inflight, target, bot, its>>

NextEncode == Encode

SpecEncode == InitEncode /\ [][NextEncode]_vars

\* ------------------------------------------------------------- commands.Bot
\* The bot's registries: commands is the set of registered commands, each
\* [name, owner], with one command per name; listeners the set of registered
\* listeners, each [event, fn]; components the set of loaded components, one per
\* name. A Component is [name, commands, listeners]: __component_name__, the
\* names of __all_commands__ and the [event, fn] of __all_listeners__, in order.
Bot(commands) == [commands |-> commands, listeners |-> {}, components |-> {}]

\* Mixin.add_command: a name already registered is refused.
add_command(self, command) ==
  IF \E c \in self.commands : c.name = command.name
  THEN Result(self, "CommandExistsError", PyNone, PyNone, <<>>)
  ELSE Result([self EXCEPT !.commands = @ \cup {command}], "", PyNone, PyNone, <<>>)

\* Mixin.remove_command: the command registered under the name, if any, is removed.
remove_command(self, name) == [self EXCEPT !.commands = {c \in @ : c.name # name}]

\* Client.add_listener: an event name that does not start with "event_" is refused.
add_listener(self, listener, event) ==
  IF ~startswith(event, <<"event_">>)
  THEN Result(self, "ValueError", PyNone, PyNone, <<>>)
  ELSE Result([self EXCEPT !.listeners = @ \cup {[event |-> event, fn |-> listener]}],
              "", PyNone, PyNone, <<>>)

\* Client.remove_listener
remove_listener(self, listener) == [self EXCEPT !.listeners = {l \in @ : l.fn # listener}]

\* The first loop of _add_component, up to the first add_command that raises.
RECURSIVE AddCommands(_, _, _)
AddCommands(self, owner, names) ==
  IF names = <<>> THEN Result(self, "", PyNone, PyNone, <<>>)
  ELSE IF add_command(self, [name |-> Head(names), owner |-> owner]).raised # ""
  THEN add_command(self, [name |-> Head(names), owner |-> owner])
  ELSE AddCommands(add_command(self, [name |-> Head(names), owner |-> owner]).self,
                   owner, Tail(names))

\* The second loop of _add_component, up to the first add_listener that raises.
RECURSIVE AddListeners(_, _)
AddListeners(self, listeners) ==
  IF listeners = <<>> THEN Result(self, "", PyNone, PyNone, <<>>)
  ELSE IF add_listener(self, Head(listeners).fn, Head(listeners).event).raised # ""
  THEN add_listener(self, Head(listeners).fn, Head(listeners).event)
  ELSE AddListeners(add_listener(self, Head(listeners).fn, Head(listeners).event).self,
                    Tail(listeners))

\* _add_component from its second loop on: r is what the first loop did.
ThenListeners(r, component) ==
  IF r.raised # "" THEN r ELSE AddListeners(r.self, component.listeners)

\* Bot._add_component up to its await: the two loops.
_add_component(self, component) ==
  ThenListeners(AddCommands(self, component.name, component.commands), component)

\* await component.component_load(): it returns or raises.
ThenLoad(r, load_raises) ==
  IF r.raised = "" /\ load_raises THEN [r EXCEPT !.raised = "Exception"] ELSE r

RECURSIVE RemoveCommands(_, _)
RemoveCommands(self, names) ==
  IF names = <<>> THEN self ELSE RemoveCommands(remove_command(self, Head(names)), Tail(names))

RECURSIVE RemoveListeners(_, _)
RemoveListeners(self, listeners) ==
  IF listeners = <<>> THEN self
  ELSE RemoveListeners(remove_listener(self, Head(listeners).fn), Tail(listeners))

\* Bot._cleanup_component
_cleanup_component(self, component) ==
  RemoveListeners(RemoveCommands(self, component.commands), component.listeners)

\* Bot.add_component after _add_component did r: r.self is the bot by then.
Registered(r, component) ==
  IF r.raised # ""
  THEN Result(_cleanup_component(r.self, component), "ComponentLoadError", PyStr(<<r.raised>>),
              PyNone, <<>>)
  ELSE Result([r.self EXCEPT !.components =
                 {c \in @ : c.name # component.name} \cup {component}],
              "", PyNone, PyNone, <<>>)

\* Bot.remove_component up to its await: the component of that name, if any, is
\* popped and cleaned up; value is the component, None when there was none.
remove_component(self, name) ==
  IF \A c \in self.components : c.name # name
  THEN Result(self, "", PyNone, PyNone, <<>>)
  ELSE Result(_cleanup_component(
                [self EXCEPT !.components = {c \in @ : c.name # name}],
                CHOOSE c \in self.components : c.name = name),
              "", PyNone, CHOOSE c \in self.components : c.name = name, <<>>)

\* Mutant of Teardown: an exception of component_teardown is not caught.
Teardown_reraise(self, component, teardown_raises) ==
  Result(self, IF teardown_raises THEN "Exception" ELSE "", PyNone,
         IF teardown_raises THEN PyNone ELSE component, <<>>)

\* Bot.remove_component from its await on: component_teardown returns or
\* raises; exc is the exception that was caught and logged, None when there
\* was none.
Teardown(self, component, teardown_raises) ==
  Result(self, "", IF teardown_raises THEN PyStr(<<"Exception">>) ELSE PyNone,
         component, <<>>)

\* SpecBot: two tasks add components to and remove them from one bot, which may
\* have a command of its own, and commands and listeners are added to and removed
\* from the bot directly. add_component runs without interruption up to its await
\* of component_load and remove_component up to its await of component_teardown;
\* the other task and the direct calls run while a call is suspended there.
\* Component "B" has a command named like one of "A" and like the bot's own;
\* component "C" has a listener with a bad event name.
Components ==
  {[name |-> "A", commands |-> <<"hi", "say">>,
    listeners |-> <<[event |-> <<"event_", "message">>, fn |-> "A.event_message"]>>],
   [name |-> "B", commands |-> <<"say">>, listeners |-> <<>>],
   [name |-> "C", commands |-> <<"so">>,
    listeners |-> <<[event |-> <<"event_", "ready">>, fn |-> "C.event_ready"],
                    [event |-> <<"message">>, fn |-> "C.message"]>>]}
ComponentNames == {c.name : c \in Components}
\* The commands and listeners given to the bot directly.
DirectCommands == {"say"}
DirectListeners == {[event |-> <<"event_", "message">>, fn |-> "on_message"]}
DirectRemovals == {"A.event_message"}

\* A call on the bot by task t (0 for a direct call): route is the bot before
\* it (kept for add_component and remove_component), args its arguments.
BotCall(op, t, before, args, r) ==
  [op |-> op, task |-> t, route |-> before, raised |-> r.raised, exc |-> r.exc,
   value |-> r.value, calls |-> 0, args |-> args]

\* A call that is suspended in its await.
Suspended(call, t, before, args, r) ==
  [BotCall("begin", t, before, args, r) EXCEPT !.raised = ""] @@ [call |-> call]

InitBot ==
  /\ bot \in {Bot({}), Bot({[name |-> "say", owner |-> "bot"]})}
  /\ its = <<>>
  /\ ret = NoCall
  /\ target = PyNone
  /\ it = HTTPAsyncIterator(NewRoute("GET", RoutePath, FALSE, <<>>), PyNone)
  /\ hist = NoHistory(PyNone)
  /\ http = HTTPClient(PyNone)
  /\ served = 0
  /\ resp = NoResponse
  /\ inflight = <<>>

\* The task has no call suspended.
Idle(t) == \A k \in 1..Len(inflight) : inflight[k].task # t

\* Task t calls bot.add_component(component): the call fails in one of its
\* loops, or is suspended in component_load.
AddComponent(t) ==
  /\ Idle(t)
  /\ \E component \in Components : \E r \in {_add_component(bot, component)} :
       IF r.raised # ""
       THEN \E e \in {Registered(r, component)} :
              /\ bot' = e.self
              /\ ret' = BotCall("add_component", t, bot,
                                [component |-> component, raises |-> FALSE], e)
              /\ inflight' = inflight
       ELSE /\ bot' = r.self
            /\ ret' = Suspended("add_component", t, PyNone, [component |-> component], r)
            /\ inflight' = Append(inflight, [task |-> t, op |-> "add_component",
                                             before |-> bot, component |-> component])
  /\ hist' = [hist EXCEPT !.overlap = @ \/ inflight # <<>>]
  /\ UNCHANGED <<it, http, served, resp, target, its>>

\* component_load of the call of task t returns or raises, and add_component
\* goes on from there with the bot as it is by then.
LoadDone(t) ==
  /\ \E k \in 1..Len(inflight), load_raises \in BOOLEAN :
       /\ inflight[k].task = t /\ inflight[k].op = "add_component"
       /\ \E e \in {Registered(ThenLoad(Result(bot, "", PyNone, PyNone, <<>>), load_raises),
                               inflight[k].component)} :
            /\ bot' = e.self
            /\ ret' = BotCall("add_component", t, inflight[k].before,
                              [component |-> inflight[k].component, raises |-> load_raises],
                              e)
       /\ inflight' = Without(k)
  /\ hist' = [hist EXCEPT !.overlap = @ \/ Len(inflight) > 1]
  /\ UNCHANGED <<it, http, served, resp, target, its>>

\* Task t calls bot.remove_component(name): it returns None at once, or is
\* suspended in component_teardown.
RemoveComponent(t) ==
  /\ Idle(t)
  /\ \E name \in ComponentNames : \E r \in {remove_component(bot, name)} :
       /\ bot' = r.self
       /\ IF IsNone(r.value)
          THEN /\ ret' = BotCall("remove_component", t, bot,
                                 [name |-> name, raises |-> FALSE], r)
               /\ inflight' = inflight
          ELSE /\ ret' = Suspended("remove_component", t, PyNone, [name |-> name], r)
               /\ inflight' = Append(inflight, [task |-> t, op |-> "remove_component",
                                                before |-> PyNone, component |-> r.value])
  /\ hist' = [hist EXCEPT !.overlap = @ \/ inflight # <<>>]
  /\ UNCHANGED <<it, http, served, resp, target, its>>

\* component_teardown of the call of task t returns or raises, and
\* remove_component returns.
TeardownDone(t) ==
  /\ \E k \in 1..Len(inflight), teardown_raises \in BOOLEAN :
       /\ inflight[k].task = t /\ inflight[k].op = "remove_component"
       /\ \E r \in {Teardown(bot, inflight[k].component, teardown_raises)} :
            /\ bot' = r.self
            /\ ret' = BotCall("remove_component", t, bot,
                              [name |-> inflight[k].component.name,
                               raises |-> teardown_raises], r)
       /\ inflight' = Without(k)
  /\ hist' = [hist EXCEPT !.overlap = @ \/ Len(inflight) > 1]
  /\ UNCHANGED <<it, http, served, resp, target, its>>

\* bot.add_command(command), for a command of the bot's own
AddCommand ==
  /\ \E name \in DirectCommands :
       \E r \in {add_command(bot, [name |-> name, owner |-> "bot"])} :
         /\ bot' = r.self
         /\ ret' = BotCall("add_command", 0, PyNone, [name |-> name], r)
  /\ hist' = [hist EXCEPT !.direct = TRUE, !.overlap = @ \/ inflight # <<>>]
  /\ UNCHANGED <<it, http, served, resp, inflight, target, its>>

\* bot.remove_command(name)
RemoveCommand ==
  /\ \E name \in DirectCommands :
       /\ bot' = remove_command(bot, name)
       /\ ret' = BotCall("remove_command", 0, PyNone, [name |-> name],
                         Result(bot, "", PyNone, PyNone, <<>>))
  /\ hist' = [hist EXCEPT !.direct = TRUE, !.overlap = @ \/ inflight # <<>>]
  /\ UNCHANGED <<it, http, served, resp, inflight, target, its>>

\* bot.add_listener(listener, event=event)
AddListener ==
  /\ \E l \in DirectListeners : \E r \in {add_listener(bot, l.fn, l.event)} :
       /\ bot' = r.self
       /\ ret' = BotCall("add_listener", 0, PyNone, [listener |-> l], r)
  /\ hist' = [hist EXCEPT !.direct = TRUE, !.overlap = @ \/ inflight # <<>>]
  /\ UNCHANGED <<it, http, served, resp, inflight, target, its>>

\* bot.remove_listener(listener)
RemoveListener ==
  /\ \E fn \in DirectRemovals :
       /\ bot' = remove_listener(bot, fn)
       /\ ret' = BotCall("remove_listener", 0, PyNone, [listener |-> fn],
                         Result(bot, "", PyNone, PyNone, <<>>))
  /\ hist' = [hist EXCEPT !.direct = TRUE, !.overlap = @ \/ inflight # <<>>]
  /\ UNCHANGED <<it, http, served, resp, inflight, target, its>>

NextBot ==
  \/ \E t \in Tasks : AddComponent(t) \/ LoadDone(t) \/ RemoveComponent(t) \/ TeardownDone(t)
  \/ AddCommand \/ RemoveCommand \/ AddListener \/ RemoveListener

SpecBot == InitBot /\ [][NextBot]_vars

\* ------------------------------------------- flows stepping iterators at once
\* SpecFlows: two flows call __anext__ on, or await, iterators that share one
\* HTTPClient, either both the same iterator or each an iterator of its own. A call
\* runs without interruption up to its only suspension, the await of
\* request_json in _call_next: by then the route holds the `after` of the call
\* and the session has been given the request with the URL read from it. The
\* call is resumed when the response arrives. The server answers a page request
\* by its path and its `after` alone.
Flows == {1, 2}
FlowPaths == <<<<"games/top">>, <<"streams">>>>

\* The iterator a flow steps.
On(f) == IF Len(its) = 1 THEN 1 ELSE f

\* Mutant of Store: the buffer is one object all iterators share.
StoreSharedBuffer(all, i, self) ==
  [j \in DOMAIN all |-> IF j = i THEN self ELSE [all[j] EXCEPT !.buffer = self.buffer]]

\* self._route, self._cursor and self._buffer are attributes of the instance:
\* a call changes the iterator it was made on.
Store(all, i, self) == [all EXCEPT ![i] = self]

\* The page the server holds for a request: page k of the path follows cursor k.
PageIndex(route) ==
  LET after == Get(route.params, "after", PyNone)
  IN  IF after = PyStr(<<"x">>) THEN 1 ELSE IF after = PyStr(<<"y">>) THEN 2 ELSE 0
ServerPage(route) ==
  LET k == PageIndex(route)
      base == IF route.path = FlowPaths[1] THEN 0 ELSE 10
  IN  Response(200, PyStr(JsonType),
               Body(TRUE, Items(base + k * MaxPage, MaxPage),
                    IF k = 0 THEN Pagination(<<"x">>)
                    ELSE IF k = 1 THEN Pagination(<<"y">>) ELSE <<>>))

\* A call of flow f that started on the iterator `before`.
FlowCall(f, op, before, c) ==
  [op |-> op, flow |-> f, route |-> before, raised |-> c.raised, exc |-> c.exc,
   value |-> c.value, calls |-> Len(c.sent), sent |-> c.sent]

InitFlows ==
  /\ its \in {<<HTTPAsyncIterator(NewRoute("GET", FlowPaths[1], FALSE, <<>>), PyNone)>>,
              <<HTTPAsyncIterator(NewRoute("GET", FlowPaths[1], FALSE, <<>>), PyNone),
                HTTPAsyncIterator(NewRoute("GET", FlowPaths[2], FALSE, <<>>), PyNone)>>}
  /\ it = PyNone
  /\ hist = NoHistory(PyNone)
  /\ http = HTTPClient(PyNone)
  /\ served = 0
  /\ ret = NoCall
  /\ resp = NoResponse
  /\ inflight = <<>>
  /\ bot = PyNone
  /\ target = PyNone

\* Flow f calls __anext__ or awaits its iterator. With items buffered, or with
\* nothing left to fetch, the call ends without suspending; else it suspends in
\* request_json.
Begin(f, op) ==
  /\ \A k \in 1..Len(inflight) : inflight[k].flow # f
  /\ LET i == On(f)
         self == its[i]
     IN  IF ~WillFetch(self)
         THEN \E c \in {Run(op, self, http, TransportError)} :
                /\ its' = Store(its, i, c.self)
                /\ ret' = FlowCall(f, op, self, c)
                /\ hist' = [hist EXCEPT
                              !.delivered = IF op = "anext" /\ c.raised = ""
                                            THEN Append(@, c.value) ELSE @]
                /\ UNCHANGED <<http, inflight>>
         ELSE /\ hist.nreq < MaxRequests
              /\ \E started \in {SetAfter(self)}, h \in {_init_session(http)} :
                   /\ its' = Store(its, i, started)
                   /\ http' = h
                   /\ inflight' = Append(inflight, [flow |-> f, op |-> op, before |-> self,
                                                    route |-> started.route,
                                                    session |-> h.session])
                   /\ ret' = [NoCall EXCEPT !.op = "begin", !.route = self] @@ [flow |-> f]
                   /\ hist' = [hist EXCEPT
                                 !.nreq = @ + 1,
                                 !.afters = Append(@, Get(started.route.params, "after", PyNone)),
                                 !.overlap = @ \/ \E k \in 1..Len(inflight) :
                                                     On(inflight[k].flow) = i]
  /\ resp' = NoResponse
  /\ UNCHANGED <<it, served, target, bot>>

\* The response to the request of flow f arrives: its call goes on from the
\* await with the iterator as it is by then.
Resume(f) ==
  /\ \E k \in 1..Len(inflight) :
       /\ inflight[k].flow = f
       /\ \E out \in {ServerPage(inflight[k].route), TransportError} :
            \E c \in {Resumed(inflight[k].op, its[On(f)],
                             ExpectJson(Send([http EXCEPT !.session = inflight[k].session],
                                             inflight[k].route, out)))} :
              /\ its' = Store(its, On(f), c.self)
              /\ ret' = FlowCall(f, inflight[k].op, inflight[k].before, c)
              /\ resp' = out
              /\ hist' = [hist EXCEPT
                            !.delivered = IF inflight[k].op = "anext" /\ c.raised = ""
                                          THEN Append(@, c.value) ELSE @,
                            !.failed = @ \/ c.raised \notin {"", "StopAsyncIteration"}]
              /\ inflight' = SubSeq(inflight, 1, k - 1) \o SubSeq(inflight, k + 1, Len(inflight))
  /\ UNCHANGED <<it, http, served, target, bot>>

NextFlows == \E f \in Flows : (\E op \in Ops : Begin(f, op)) \/ Resume(f)

SpecFlows == InitFlows /\ [][NextFlows]_vars

\* ------------------------------------------------------------------ claims
Min(a, b) == IF a < b THEN a ELSE b

\* The converted items of a sequence of raw items.
Converted(items) == [i \in 1..Len(items) |-> _converter(items[i])]

\* The first raw items of a page that a budget of m lets through.
Truncated(items, m) ==
  IF IsNone(m) THEN items ELSE SubSeq(items, 1, Min(Len(items), m.int))

Stopped == ret.op = "anext" /\ ret.raised = "StopAsyncIteration"

\* C1: without max_results and with every fetch succeeding, __anext__ signals
\* end-of-sequence only after the page without cursor was received and every item
\* the server returned was delivered, and nothing is delivered after that signal.
C1_AllItemsThenEnd ==
  (IsNone(hist.M) /\ ~hist.failed /\ hist.stopAt # -1 /\ ~hist.overlap)
    => /\ hist.noCursor
       /\ hist.stopAt = served
       /\ Len(hist.delivered) = hist.stopAt

\* C2: with max_results = M at most M items are delivered; once a first page of at
\* least M items was received, the delivered and buffered items are the first M
\* items of that page, no further request is issued, and the end-of-sequence
\* signal comes with exactly M items delivered.
C2_Budget ==
  [][/\ ~IsNone(hist.M) => Len(hist'.delivered) <= hist.M.int
     /\ (~IsNone(hist.M) /\ hist.firstPage # -1 /\ hist.firstPage >= hist.M.int)
          => hist'.nreq = hist.nreq
     /\ (~IsNone(hist.M) /\ hist'.firstPage # -1 /\ hist'.firstPage >= hist.M.int)
          => /\ hist'.delivered \o it'.buffer = Converted(Items(0, hist.M.int))
             /\ (ret'.op = "anext" /\ ret'.raised = "StopAsyncIteration")
                  => Len(hist'.delivered) = hist.M.int]_vars

\* The first page held more items than the budget and carried a cursor; the
\* budget's worth was delivered and the iteration ended after one request.
C2_Witness ==
  /\ hist.M = PyInt(1) /\ hist.firstPage = 2 /\ IsStr(it.cursor)
  /\ Stopped /\ Len(hist.delivered) = 1 /\ hist.nreq = 1

\* C3 as claimed: an await on an empty buffer that does not fail issues exactly
\* one request and returns the converted items of that page.
C3_AwaitAlwaysFetches ==
  [][(ret'.op = "await" /\ ret'.before.buffer = <<>> /\ ~hist'.overlap
        /\ ret'.raised \in {"", "StopAsyncIteration"})
       => /\ ret'.calls = 1
          /\ ret'.raised = ""
          /\ ret'.value =
               PyList(Converted(Truncated(PageItems(resp'), ret'.before.max_results)))]_vars

\* C3 amended: an await on an empty buffer, with the cursor not False and the
\* budget not used up, issues exactly one request, and when the response carries
\* "data" returns the converted items of that page, cut to the budget, in order
\* (no other call running on the iterator meanwhile).
C3_AwaitFetchesOnePage ==
  [][/\ (ret'.op = "begin" /\ ret'.call = "await")
          => WillFetch(it) /\ ret'.calls = 1 /\ hist'.nreq = hist.nreq + 1
     /\ (ret'.op = "await" /\ WillFetch(ret'.before))
          => /\ ret'.calls = 1
             /\ hist'.nreq = hist.nreq
             /\ (HasData(resp') /\ ~hist'.overlap)
                  => /\ ret'.raised = ""
                     /\ ret'.value =
                          PyList(Converted(Truncated(PageItems(resp'),
                                                     ret'.before.max_results)))]_vars

\* An await returned a whole page of two items whose response carried a cursor.
C3_Witness ==
  /\ ret.op = "await" /\ ret.raised = "" /\ ret.calls = 1
  /\ HasData(resp) /\ HasCursor(resp) /\ Len(PageItems(resp)) = 2
  /\ ret.value = PyList(Converted(PageItems(resp)))
  /\ IsStr(it.cursor) /\ ~hist.overlap

\* C4: a call issues at most one request, and a request is issued only from a
\* state whose buffer is empty (also when calls overlap: a call checks the
\* buffer and hands its request to the session without a suspension between).
C4_FetchOnlyWhenEmpty ==
  [][/\ hist'.nreq <= hist.nreq + 1
     /\ ret'.calls <= 1
     /\ hist'.nreq # hist.nreq => it.buffer = <<>>]_vars

\* Two pages were fetched, the second after the items of the first were taken.
C4_Witness == hist.nreq = 2 /\ Len(hist.delivered) = 3 /\ it.buffer # <<>>

\* C5 as claimed: once a successful response without cursor was received the
\* cursor is False, no further request is issued, and __anext__ on an empty
\* buffer signals end-of-sequence.
C5_NoCursorIsFinal ==
  [][/\ hist'.noCursor => it'.cursor = PyFalse
     /\ hist.noCursor
          => /\ hist'.nreq = hist.nreq
             /\ (ret'.op = "anext" /\ ret'.before.buffer = <<>>)
                  => ret'.raised = "StopAsyncIteration"]_vars

\* C5 amended: on an iterator no call was made on while another was suspended,
\* once a successful response without cursor was received the cursor is False,
\* no further request is issued, and __anext__ on an empty buffer signals
\* end-of-sequence.
C5_NoCursorIsFinalSequential ==
  [][~hist'.overlap
      => /\ hist'.noCursor => it'.cursor = PyFalse
         /\ hist.noCursor
              => /\ hist'.nreq = hist.nreq
                 /\ ret'.op # "begin"
                 /\ (ret'.op = "anext" /\ ret'.before.buffer = <<>>)
                      => ret'.raised = "StopAsyncIteration"]_vars

\* The only page had no cursor; its items were delivered and the iteration ended.
C5_Witness ==
  /\ hist.noCursor /\ Stopped /\ Len(hist.delivered) = 2 /\ hist.nreq = 1
  /\ it.cursor = PyFalse /\ ~hist.overlap

\* C6: a call on an empty buffer with max_results <= 0 signals end-of-sequence and
\* issues no request; an iterator created with max_results = 0 never issues a
\* request and delivers nothing.
C6_NoFetchWithoutBudget ==
  [][/\ (~IsNone(it.max_results) /\ it.max_results.int <= 0)
          => ret'.op # "begin" /\ hist'.nreq = hist.nreq
     /\ (ret'.op \in Ops /\ ~IsNone(ret'.before.max_results)
           /\ ret'.before.max_results.int <= 0 /\ ret'.before.buffer = <<>>)
          => /\ ret'.raised = "StopAsyncIteration"
             /\ ret'.calls = 0
     /\ hist.M = PyInt(0) => hist'.nreq = 0 /\ hist'.delivered = <<>>]_vars

\* __anext__ on an iterator created with max_results = 0.
C6_Witness ==
  /\ hist.M = PyInt(0) /\ it.max_results = PyInt(0)
  /\ Stopped /\ ret.calls = 0 /\ hist.nreq = 0

\* C7: on an iterator used sequentially (no call made on it while another was
\* suspended), the delivered items followed by the buffered ones are, in order,
\* the converted first items the server returned: nothing is dropped from the
\* middle, duplicated or reordered.
C7_DeliveredIsPrefix ==
  ~hist.overlap
    => /\ Len(hist.delivered) + Len(it.buffer) <= served
       /\ hist.delivered \o it.buffer =
            Converted(Items(0, Len(hist.delivered) + Len(it.buffer)))

\* Three items of two pages were delivered.
C7_Witness ==
  Len(hist.delivered) = 3 /\ hist.nreq = 2 /\ served >= 3 /\ ~hist.overlap

\* C8: a successful JSON response without "data" makes the call raise ValueError.
C8_MissingDataRaises ==
  (ret.op \in {"anext", "await"} /\ IsPage(resp) /\ ~HasData(resp))
    => ret.raised = "ValueError"

\* __anext__ read a response that has a cursor and no "data".
C8_Witness ==
  /\ ret.op = "anext" /\ ret.raised = "ValueError"
  /\ IsPage(resp) /\ ~HasData(resp) /\ HasCursor(resp)

\* C9: request makes one call on the session, and raises HTTPException, carrying
\* the status, the route and the decoded body, exactly when a response with a
\* status >= 400 was read.
C9_HTTPExceptionIffStatus ==
  ret.op = "request"
    => /\ ret.calls = 1
       /\ ret.raised = "HTTPException" <=> (resp.kind = "response" /\ resp.status >= 400)
       /\ ret.raised = "HTTPException"
            => ret.exc = [status |-> resp.status, route |-> ret.route,
                          extra |-> IF IsJsonType(resp.ctype) THEN ErrorBody ELSE TextBody]
       /\ (resp.kind = "response" /\ resp.status < 400) => ret.raised = ""

\* request read a 400 response with a JSON body.
C9_Witness ==
  /\ ret.op = "request" /\ ret.raised = "HTTPException"
  /\ resp.status = 400 /\ ret.exc.status = 400 /\ ret.exc.extra = ErrorBody
  /\ ret.exc.route.method = "POST"

\* C10: request_json raises TypeError exactly when a response with a status < 400
\* that does not declare JSON was read, and HTTPException for every status >= 400.
C10_TypeErrorIffText ==
  ret.op = "request_json"
    => /\ ret.raised = "TypeError"
            <=> (resp.kind = "response" /\ resp.status < 400 /\ ~IsJsonType(resp.ctype))
       /\ (resp.kind = "response" /\ resp.status >= 400) => ret.raised = "HTTPException"
       /\ (resp.kind = "response" /\ resp.status < 400 /\ IsJsonType(resp.ctype))
            => ret.raised = "" /\ ret.value = resp.body

\* request_json read a 399 response declared as text/html.
C10_Witness ==
  /\ ret.op = "request_json" /\ ret.raised = "TypeError"
  /\ resp.status = 399 /\ resp.ctype = PyStr(<<"text/html">>)

\* C11: when the network call of a fetch fails (transport failure or HTTP error
\* status), the call of __anext__/await that made it raises that failure, the
\* buffer is as it was before the call, and nothing is added to or taken from
\* the items delivered so far.
C11_FailedFetchCommitsNothing ==
  [][(/\ ret'.op \in {"anext", "await"}
      /\ ret'.calls = 1
      /\ resp'.kind = "error" \/ (resp'.kind = "response" /\ resp'.status >= 400))
       => /\ ret'.raised = IF resp'.kind = "error" THEN "ClientError" ELSE "HTTPException"
          /\ it'.buffer = it.buffer
          /\ ~hist'.overlap => it'.buffer = ret'.before.buffer
          /\ hist'.delivered = hist.delivered
          /\ served' = served]_vars

\* A fetch failed with an HTTP error after items of an earlier page were delivered.
C11_Witness ==
  /\ ret.op = "anext" /\ ret.raised = "HTTPException" /\ ret.calls = 1
  /\ resp.kind = "response" /\ resp.status >= 400
  /\ Len(hist.delivered) >= 1
  /\ it.buffer = <<>>

\* C12: close() returns normally whether the session's close() succeeded or
\* raised an Exception.
C12_CloseNeverRaises == ret.op = "close" => ret.raised = ""

\* close() returned after the session's close() raised.
C12_Witness ==
  ret.op = "close" /\ ret.raised = "" /\ ret.exc = PyStr(<<"Exception">>)

\* C13 as claimed: the request that follows a completed close() on an open
\* session is not refused by a closed session: it is handed to a session created
\* for it, which is open. Whatever happens to the client and its session between
\* the end of close() and the request counts, short of a clear() that discards
\* the session: another close() that has begun, and the session's owner
\* closing it.
C13_NewSessionAfterClose ==
  [][(hist.life = "close" /\ hist'.nreq = hist.nreq + 1)
       => /\ ret'.raised # "RuntimeError"
          /\ ret'.calls = 1
          /\ http'.created = http.created + 1
          /\ http'.session.id = http'.created
          /\ ~http'.session.closed]_vars

\* C14: clear() sets the session to None when there is one and it is closed, and
\* otherwise leaves the client as it is; the request after a discard creates a
\* new, open session with the default headers.
C14_ClearDiscardsClosedOnly ==
  [][/\ ret'.op = "clear"
         => IF ~IsNone(http.session) /\ http.session.closed
            THEN http' = [http EXCEPT !.session = PyNone]
            ELSE http' = http
     /\ (hist.life = "discard" /\ hist'.nreq = hist.nreq + 1)
         => /\ ret'.calls = 1
            /\ http'.created = http.created + 1
            /\ http'.session = [id |-> http'.created, closed |-> FALSE,
                                headers |-> DefaultHeaders]]_vars

\* A request was issued on the session created after clear() discarded a closed one.
C14_Witness ==
  /\ hist.life = "discard+request"
  /\ ret.op \in Requests /\ ret.calls = 1 /\ ret.raised = ""
  /\ ~http.session.closed /\ http.session.id = http.created

\* C16 as claimed: the session a request was handed to carries the client's
\* default headers User-Agent and Client-ID.
C16_DefaultHeadersAttached ==
  [][hist'.nreq = hist.nreq + 1
      => \A i \in 1..Len(DefaultHeaders) :
           Get(http'.session.headers, DefaultHeaders[i].k, PyNone) = DefaultHeaders[i].v]_vars

\* C15: on a client constructed without a session and never closed, no session
\* exists before the first request, and any requests, started one after the other
\* or while earlier ones are still in flight, create one session that all use.
C15_OneSession ==
  (~hist.closed /\ (IsNone(http.session) \/ http.session.id # 0))
    => /\ http.created = (IF hist.nreq = 0 THEN 0 ELSE 1)
       /\ hist.nreq = 0 => IsNone(http.session)
       /\ hist.nreq > 0 => http.session.id = 1
       /\ hist.used \subseteq {1}
       /\ \A i \in 1..Len(inflight) : _init_session(inflight[i].http).session.id = 1

\* Two requests are in flight at once on the single session the client created.
C15_Witness ==
  /\ ~hist.closed /\ Len(inflight) = 2
  /\ http.created = 1 /\ http.session.id = 1 /\ hist.used = {1}
  /\ \A i \in 1..Len(inflight) :
       inflight[i].op \in Requests /\ _init_session(inflight[i].http).session.id = 1

\* The mapping build_url worked on in the last call on the Route.
Mapping ==
  IF ret.op = "Route" THEN ret.args.params
  ELSE IF ret.op = "update_params" THEN DictUpdate(ret.route.params, ret.args.params)
  ELSE ret.route.params

\* The duplicate_key the claims expect the last call on the Route to have used.
Dup == IF ret.op = "Route" THEN ~target.use_id ELSE ret.args.duplicate_key

RECURSIVE Join(_, _)
Join(parts, sep) ==
  IF parts = <<>> THEN <<>>
  ELSE IF Len(parts) = 1 THEN parts[1]
  ELSE parts[1] \o <<sep>> \o Join(Tail(parts), sep)

\* The key=value pairs one entry of a mapping stands for.
PairsOf(e, dup) ==
  IF IsNone(e.v) THEN <<>>
  ELSE IF ~IsList(e.v) THEN <<(<<e.k, "=">> \o encode(str(e.v), {"+"}, TRUE))>>
  ELSE IF dup
  THEN [i \in 1..Len(e.v.list) |-> <<e.k, "=">> \o encode(str(e.v.list[i]), {"+"}, TRUE)]
  ELSE <<(<<e.k, "=">>
            \o Join([i \in 1..Len(e.v.list) |-> encode(str(e.v.list[i]), {"+"}, FALSE)],
                    "+"))>>

RECURSIVE Pairs(_, _)
Pairs(params, dup) ==
  IF params = <<>> THEN <<>> ELSE PairsOf(Head(params), dup) \o Pairs(Tail(params), dup)

\* The part of a URL after its "?".
Query(url) ==
  IF \A i \in 1..Len(url) : url[i] # "?" THEN <<>>
  ELSE SubSeq(url, 1 + CHOOSE i \in 1..Len(url) :
                         url[i] = "?" /\ \A j \in 1..(i - 1) : url[j] # "?",
              Len(url))

\* The pieces of a string between the occurrences of sep; none for the empty string.
RECURSIVE Split(_, _)
Split(s, sep) ==
  IF s = <<>> THEN <<>>
  ELSE IF \A i \in 1..Len(s) : s[i] # sep THEN <<s>>
  ELSE LET i == CHOOSE i \in 1..Len(s) : s[i] = sep /\ \A j \in 1..(i - 1) : s[j] # sep
       IN  <<SubSeq(s, 1, i - 1)>>
             \o (IF i = Len(s) THEN <<(<<>>)>> ELSE Split(SubSeq(s, i + 1, Len(s)), sep))

ScalarOnly(params) == \A i \in 1..Len(params) : ~IsList(params[i].v)

\* No scalar value of the mapping reaches the URL with a bare "&" in it.
Clean(params) ==
  \A i \in 1..Len(params) :
    (IsStr(params[i].v) \/ IsInt(params[i].v))
      => \A j \in 1..Len(encode(str(params[i].v), {"+"}, TRUE)) :
           encode(str(params[i].v), {"+"}, TRUE)[j] # "&"

\* C17 as claimed: when every value of the mapping is a scalar or None, the query
\* string of the URL, cut at its "&", is one key=value pair per entry whose value
\* is not None, in mapping order.
C17_OnePairPerScalar ==
  (ret.op \in {"Route", "update_params", "build_url"} /\ ScalarOnly(Mapping))
    => Split(Query(ret.value.str), "&") = Pairs(Mapping, TRUE)

\* C18 as claimed: build_url with duplicate_key=True emits one key=element pair
\* for each element of a sequence value, in order, and with duplicate_key=False
\* one key= pair of the elements joined by "+"; the constructor uses the first
\* for use_id=False and the second for use_id=True. Mappings whose scalar values
\* reach the URL with a bare "&" are not looked at.
C18_SequenceEncoding ==
  (ret.op \in {"Route", "build_url"} /\ Clean(Mapping))
    => Split(Query(ret.value.str), "&") = Pairs(Mapping, Dup)

\* C19: encode(encode(v)) = encode(v) for every string v over space, "+", "%",
\* "2", "5", "x" and the longer strings with characters beyond ASCII or their
\* escapes, every safe set used and both settings of plus.
C19_EncodeIdempotent ==
  ret.op = "encode"
    => encode(ret.value.str, ret.args.safe, ret.args.plus) = ret.value.str

\* A percent-encoded value was given to encode and came back as it was.
C19_Witness ==
  /\ ret.op = "encode" /\ ret.args.plus
  /\ ret.args.value = <<"%", "2", "5">>
  /\ ret.value = PyStr(<<"%", "2", "5">>)

\* C20 as claimed: the URL update_params stores and returns is the URL of a Route
\* constructed with the same method, path and use_id on the merged mapping, and
\* update_params with an empty mapping leaves the URL as it was.
C20_UpdateEqualsFresh ==
  ret.op = "update_params"
    => /\ target.url = NewRoute(target.method, target.path, target.use_id, Mapping).url
       /\ ret.value = PyStr(target.url)
       /\ ret.args.params = <<>> => target.url = ret.route.url

\* C21 as claimed: add_component raises nothing but ComponentLoadError, and when
\* it raises, the registry of components, the registered commands and the
\* registered listeners are those from before the call (for calls during which
\* nothing else ran on the bot).
C21_FailedAddRollsBack ==
  (ret.op = "add_component" /\ ~hist.overlap)
    => /\ ret.raised \in {"", "ComponentLoadError"}
       /\ ret.raised = "ComponentLoadError"
            => /\ bot.components = ret.route.components
               /\ bot.commands = ret.route.commands
               /\ bot.listeners = ret.route.listeners

\* The commands and listeners of a component.
OwnCommands(component) == {component.commands[i] : i \in 1..Len(component.commands)}
OwnListeners(component) == {component.listeners[i].fn : i \in 1..Len(component.listeners)}

\* C22: remove_component of a loaded component takes it out of the registry,
\* and its commands and listeners off the bot, leaving the others, before it
\* awaits component_teardown; whether the teardown raised or not it then
\* returns that component without raising and without changing the bot again;
\* for a name that is not loaded it returns None and leaves the bot as it was.
C22_RemoveUnloads ==
  [][/\ (ret'.op = "begin" /\ ret'.call = "remove_component")
          => /\ ret'.value \in bot.components
             /\ ret'.value.name = ret'.args.name
             /\ bot'.components = bot.components \ {ret'.value}
             /\ \A c \in bot'.commands : c.name \notin OwnCommands(ret'.value)
             /\ \A l \in bot'.listeners : l.fn \notin OwnListeners(ret'.value)
             /\ \A c \in bot.commands :
                  c.name \notin OwnCommands(ret'.value) => c \in bot'.commands
             /\ \A l \in bot.listeners :
                  l.fn \notin OwnListeners(ret'.value) => l \in bot'.listeners
     /\ ret'.op = "remove_component"
          => /\ ret'.raised = ""
             /\ bot' = bot
             /\ IF \E k \in 1..Len(inflight) : inflight[k].task = ret'.task
                THEN /\ \E k \in 1..Len(inflight) :
                          inflight[k].task = ret'.task /\ ret'.value = inflight[k].component
                     /\ ret'.value.name = ret'.args.name
                ELSE /\ \A c \in bot.components : c.name # ret'.args.name
                     /\ ret'.value = PyNone]_vars

\* A loaded component with commands and a listener was removed and returned
\* although its component_teardown raised.
C22_Witness ==
  /\ ret.op = "remove_component" /\ ret.raised = "" /\ ret.args.raises
  /\ ret.args.name = "A" /\ ret.value \in Components /\ ret.value.name = "A"
  /\ inflight = <<>>
  /\ \A c \in bot.components : c.name # "A"
  /\ \A c \in bot.commands : c.name \notin OwnCommands(ret.value)
  /\ \A l \in bot.listeners : l.fn \notin OwnListeners(ret.value)

\* No element occurs twice in the sequence.
NoDuplicate(seq) == \A i, j \in 1..Len(seq) : seq[i] = seq[j] => i = j

\* C23: on an iterator stepped by two flows, as long as no page request was
\* issued while another request of the iterator was unanswered (which is all a
\* single flow can do), no item is delivered twice and, unless a fetch failed,
\* no `after` is requested twice; the witness is the interleaving in which both
\* flows found the buffer empty, both requested the same `after`, and the items
\* of that page were delivered twice.
C23_NoDuplicateWithoutOverlap ==
  (Len(its) = 1 /\ ~hist.overlap)
    => /\ NoDuplicate(hist.delivered)
       /\ ~hist.failed => NoDuplicate(hist.afters)

\* Both flows requested the first page of the same iterator at once and each
\* item of that page was delivered twice.
C23_Witness ==
  /\ Len(its) = 1 /\ hist.overlap /\ ~hist.failed
  /\ Len(hist.afters) = 2 /\ hist.afters[1] = hist.afters[2]
  /\ inflight = <<>> /\ its[1].buffer = <<>>
  /\ \A n \in 1..MaxPage :
       Cardinality({i \in 1..Len(hist.delivered) :
                      hist.delivered[i] = _do_conversion(PyInt(n))}) = 2

\* C24: with an iterator per flow, every call leaves the other iterator as it
\* was, and a call that ends returned or raised, sent and left its iterator just
\* as the same call, uninterrupted, on the iterator it started from would,
\* given the same response.
C24_NoInterference ==
  [][Len(its) = 2 /\ ret'.op \in {"begin"} \cup Ops
      => /\ \A j \in 1..2 : j # ret'.flow => its'[j] = its[j]
         /\ ret'.op \in Ops
              => LET alone == Run(ret'.op, ret'.route, http',
                                        IF resp' = NoResponse THEN TransportError ELSE resp')
                 IN  /\ its'[ret'.flow] = alone.self
                     /\ ret'.raised = alone.raised
                     /\ ret'.value = alone.value
                     /\ ret'.sent = alone.sent]_vars

\* A flow was handed an item of the second page of its iterator while the
\* request of the other flow, on the other iterator, was unanswered.
C24_Witness ==
  /\ Len(its) = 2 /\ Len(inflight) = 1
  /\ ret.op = "anext" /\ ret.raised = "" /\ ret.calls = 1
  /\ ret.flow # inflight[1].flow
  /\ ret.route.cursor = PyStr(<<"x">>)
  /\ its[inflight[1].flow].route # inflight[1].before.route

\* The `after` pairs of the query string of a URL.
AfterPairs(url) ==
  {p \in {Split(Query(url), "&")[i] : i \in 1..Len(Split(Query(url), "&"))} :
     p # <<>> /\ p[1] = "after"}

\* C25: a page request issued before any successful response was read carries
\* no `after` and leaves no `after` key in the route's mapping; a page request
\* issued later carries exactly one `after`, the cursor string of the last
\* successful response read; none is issued after a response without cursor.
C25_AfterIsLastCursor ==
  [][ret'.op = "begin"
      => /\ hist.lastCursor # PyFalse
         /\ AfterPairs(ret'.sent[1].url)
              = IF IsNone(hist.lastCursor) THEN {}
                ELSE {<<"after", "=">> \o hist.lastCursor.str}
         /\ ~IsNone(hist.lastCursor)
              => Get(it'.route.params, "after", PyNone) = hist.lastCursor
         /\ IsNone(hist.lastCursor) => ~HasKey(it'.route.params, "after")]_vars

\* The third request carried the cursor of the first response, the second
\* request having failed in between; the first carried no `after`.
C25_Witness ==
  /\ hist.nreq = 3 /\ ret.calls = 1 /\ hist.failed
  /\ AfterPairs(ret.sent[1].url) = {<<"after", "=", "x">>}
  /\ hist.lastCursor = PyStr(<<"y">>)
  /\ Len(hist.delivered) > 0

\* C26: with a budget, the converter has been called exactly once for each item
\* buffered so far, in order, and for no other; a page read with a budget of b
\* left has its first b items converted and buffered and the rest of it neither.
C26_ConvertedOncePerBuffered ==
  [][~IsNone(hist.M)
      => /\ Converted(it'.converted) = hist'.delivered \o it'.buffer
         /\ Len(it'.converted) <= hist.M.int
         /\ (ret'.op \in Ops /\ ret'.calls = 1 /\ HasData(resp'))
              => /\ it'.converted
                      = it.converted \o Truncated(PageItems(resp'), it.max_results)
                 /\ (IF ret'.op = "anext" /\ ret'.raised = "" THEN <<ret'.value>> ELSE <<>>)
                      \o it'.buffer
                      = it.buffer \o Converted(Truncated(PageItems(resp'), it.max_results))
                 /\ ~hist'.overlap => it.buffer = <<>>]_vars

\* A page of two items was read with a budget of one left: the converter was
\* called with the first item only and the budget stands at -1.
C26_Witness ==
  /\ hist.M = PyInt(1) /\ ret.calls = 1 /\ HasData(resp)
  /\ Len(PageItems(resp)) = 2
  /\ it.converted = <<PageItems(resp)[1]>>
  /\ it.max_results = PyInt(-1)

\* The `first` pairs of the query string of a URL.
FirstPairs(url) ==
  {p \in {Split(Query(url), "&")[i] : i \in 1..Len(Split(Query(url), "&"))} :
     p # <<>> /\ p[1] = "first"}

\* C27 as claimed: with max_results below the page size (the route's `first`,
\* or 20), every page request asks for first=max_results.
C27_FirstIsBudget ==
  (ret.calls = 1 /\ ~IsNone(hist.M)
     /\ hist.M.int < Get(it.route.params, "first", PyInt(20)).int)
    => FirstPairs(ret.sent[1].url) = {<<"first", "=">> \o Digits(hist.M.int)}

\* The keys of the key=value pairs of the query string of a URL.
KeysIn(url) ==
  {p[1] : p \in {q \in {Split(Query(url), "&")[i] : i \in 1..Len(Split(Query(url), "&"))} :
                   Len(q) >= 2 /\ q[2] = "="}}

\* The remove_none the last call on the Route built the URL with.
RemoveNone == IF ret.op = "Route" THEN TRUE ELSE ret.args.remove_none

\* C28: the URL a build returns has no pair for a key whose value is None (and
\* has one for a key whose value is a string or an int); after
\* a build with remove_none=true the mapping is the one the build worked on
\* without its None-valued entries, after a build with remove_none=false it is
\* that mapping unchanged.
C28_NoneNeverEmitted ==
  ret.op \in {"Route", "update_params", "build_url"}
    => /\ \A i \in 1..Len(Mapping) :
            IF IsNone(Mapping[i].v) THEN Mapping[i].k \notin KeysIn(ret.value.str)
            ELSE ~IsList(Mapping[i].v) => Mapping[i].k \in KeysIn(ret.value.str)
       /\ RemoveNone
            => /\ \A i \in 1..Len(target.params) : ~IsNone(target.params[i].v)
               /\ target.params = SelectSeq(Mapping, LAMBDA e : ~IsNone(e.v))
       /\ ~RemoveNone => target.params = Mapping

\* update_params(remove_none=False) set a key to None next to a key with a
\* value: the URL has the second key only and the mapping still has both.
C28_Witness ==
  /\ ret.op = "update_params" /\ ~ret.args.remove_none
  /\ \E i \in 1..Len(ret.args.params) : IsNone(ret.args.params[i].v)
  /\ \E i \in 1..Len(target.params) : IsNone(target.params[i].v)
  /\ Len(target.params) = 2
  /\ Cardinality(KeysIn(target.url)) = 1

\* C29: for an iterator created with max_results = M and used sequentially (no
\* call made on it while another was suspended), the budget left is never below
\* -1, and the items delivered, the items buffered and the budget left (counted
\* as 0 when it is -1) add up to M.
C29_BudgetAccounting ==
  (~IsNone(hist.M) /\ ~hist.overlap)
    => /\ it.max_results.int >= -1
       /\ Len(hist.delivered) + Len(it.buffer)
            + (IF it.max_results.int > 0 THEN it.max_results.int ELSE 0) = hist.M.int

\* A page with more items than the budget left took the budget to -1 after an
\* earlier page had used a part of it; one item is still buffered.
C29_Witness ==
  /\ hist.M = PyInt(2) /\ it.max_results = PyInt(-1)
  /\ hist.nreq = 2 /\ Len(hist.delivered) = 1 /\ Len(it.buffer) = 1
  /\ ~hist.overlap

\* C30 as claimed: once __anext__ has signalled end-of-sequence, every later
\* __anext__ signals it again, issues no request and delivers nothing.
C30_EndIsFinal ==
  [][(hist.stopAt # -1 /\ ret'.op = "anext" /\ ~hist'.overlap)
      => /\ ret'.raised = "StopAsyncIteration"
         /\ ret'.calls = 0
         /\ hist'.delivered = hist.delivered]_vars

\* C31 as claimed: an await that returns leaves the buffer equal to the list it
\* returned; an await made right after it, with no call suspended, makes no
\* request (it is not suspended in a fetch) and what it returns is the same
\* list; and an __anext__ right after it delivers the first item of the list.
\* A second await that raises without a request is C32's and passes here.
C31_AwaitKeepsBuffer ==
  [][/\ (ret'.op = "await" /\ ret'.raised = "") => ret'.value = PyList(it'.buffer)
     /\ (ret.op = "await" /\ ret.raised = "" /\ inflight = <<>>
           /\ (ret'.op = "await" \/ (ret'.op = "begin" /\ ret'.call = "await")))
          => /\ ret'.op = "await" /\ ret'.calls = 0 /\ hist'.nreq = hist.nreq
             /\ ret'.raised = "" => ret'.value = ret.value
     /\ (ret.op = "await" /\ ret.raised = "" /\ ret.value.list # <<>> /\ ret'.op = "anext"
           /\ ~hist'.overlap)
          => /\ ret'.raised = "" /\ ret'.calls = 0
             /\ ret'.value = Head(ret.value.list)
             /\ it'.buffer = Tail(ret.value.list)]_vars

\* C31: an await that returns leaves the buffer equal to the list it returned;
\* when that list is not empty, an await made right after it, with no call
\* suspended, ends in the step it starts in: it is not suspended in a fetch,
\* hands no request to the session, returns the same list and leaves the
\* buffer as it was; and an __anext__ delivers the first item of the buffer
\* and leaves the rest of it, in order, so the items of the list are delivered
\* again by the __anext__ calls that follow.
C31_AwaitKeepsNonEmptyBuffer ==
  [][/\ (ret'.op = "await" /\ ret'.raised = "") => ret'.value = PyList(it'.buffer)
     /\ (ret.op = "await" /\ ret.raised = "" /\ ret.value.list # <<>> /\ inflight = <<>>
           /\ (ret'.op = "await" \/ (ret'.op = "begin" /\ ret'.call = "await")))
          => /\ ret'.op = "await" /\ ret'.raised = "" /\ ret'.value = ret.value
             /\ ret'.calls = 0 /\ hist'.nreq = hist.nreq /\ inflight' = <<>>
             /\ it'.buffer = it.buffer
     /\ (ret'.op = "anext" /\ ret'.before.buffer # <<>>)
          => /\ ret'.raised = "" /\ ret'.calls = 0
             /\ ret'.value = Head(it.buffer)
             /\ it'.buffer = Tail(it.buffer)]_vars

\* A page of two items was fetched by an await and nothing was delivered since;
\* the last call was an await that returned both items without a request.
C31_Witness ==
  /\ ret.op = "await" /\ ret.raised = "" /\ ret.calls = 0
  /\ hist.nreq = 1 /\ hist.delivered = <<>> /\ ~hist.failed
  /\ Len(ret.value.list) = 2 /\ ret.value = PyList(it.buffer) /\ ~hist.overlap

\* C32 as claimed: an await never raises the end-of-sequence signal.
C32_AwaitNeverSignalsEnd ==
  ret.op = "await" => ret.raised # "StopAsyncIteration"

\* C33 as claimed: a call whose fetch raised leaves cursor, budget and buffer
\* as they were before it.
C33_FailedFetchKeepsState ==
  [][(ret'.op \in Ops /\ ret'.calls = 1 /\ ret'.raised \notin {"", "StopAsyncIteration"})
      => /\ it'.cursor = it.cursor
         /\ it'.max_results = it.max_results
         /\ it'.buffer = it.buffer]_vars

\* The parameters of a route other than `after`.
Others(route) == SelectSeq(route.params, LAMBDA e : e.k # "after")

\* C34 as claimed: no call on the iterator changes the route's method, path,
\* host flag, headers, JSON body or any parameter other than `after`.
C34_FetchChangesAfterOnly ==
  [][/\ it'.route.method = it.route.method
     /\ it'.route.path = it.route.path
     /\ it'.route.use_id = it.route.use_id
     /\ it'.route.headers = it.route.headers
     /\ it'.route.json = it.route.json
     /\ Others(it'.route) = Others(it.route)]_vars

\* C34: no call on the iterator changes the route's method, path, host flag,
\* headers or JSON body, and a call that fetches leaves every parameter other
\* than `after` whose value is not None as it was and in the same order (the
\* None-valued ones are deleted); a call that does not fetch leaves the route
\* as it was.
C34_FetchKeepsOtherValues ==
  [][/\ it'.route.method = it.route.method
     /\ it'.route.path = it.route.path
     /\ it'.route.use_id = it.route.use_id
     /\ it'.route.headers = it.route.headers
     /\ it'.route.json = it.route.json
     /\ ret'.op = "begin"
          => Others(it'.route) = SelectSeq(Others(it.route), LAMBDA e : ~IsNone(e.v))
     /\ ret'.op # "begin" => it'.route = it.route]_vars

\* Three pages were requested on a route with first=2: after the third request
\* the route still has first=2, before the `after` of that request.
C34_Witness ==
  /\ hist.nreq = 3 /\ ret.calls = 1 /\ ~hist.failed
  /\ it.route.params = <<[k |-> "first", v |-> PyInt(2)],
                         [k |-> "after", v |-> PyStr(<<"y">>)]>>
  /\ it.route.method = "GET" /\ it.route.path = RoutePath /\ ~it.route.use_id

\* C35 as claimed: no request is handed to a closed session.
C35_RequestOnOpenSession ==
  ret.op \in {"request", "request_json"} => ret.raised # "RuntimeError"

\* C36 as claimed: after add_component and remove_component calls only, made
\* one after the other (no command or listener added or removed directly),
\* every component in the registry has each of its commands and each of its
\* listeners registered on the bot.
C36_RegisteredComponentsComplete ==
  (~hist.direct /\ ~hist.overlap /\ inflight = <<>>) =>
  \A c \in bot.components :
    /\ \A n \in OwnCommands(c) : \E cmd \in bot.commands : cmd.name = n
    /\ \A f \in OwnListeners(c) : \E l \in bot.listeners : l.fn = f

\* C37 as claimed: a build on a mapping that is empty or holds None values only
\* returns host + path.
C37_NoPairNoQuestionMark ==
  (ret.op \in {"Route", "update_params", "build_url"}
     /\ \A i \in 1..Len(Mapping) : IsNone(Mapping[i].v))
    => ret.value.str = <<IF target.use_id THEN ID_BASE ELSE BASE>> \o target.path
====
